---- MODULE Spec2Model ----
(***************************************************************************)
(* Model of pyjen's resource-access layer: the DataRequester class of      *)
(* pyjen/utils/datarequester.py (class-level text, header and write-back   *)
(* config.xml caches, the dirty flag, flush and clear) together with the   *)
(* lazily populated plugin registry used by plugin resolution.             *)
(*                                                                         *)
(* Strings are sequences of tokens: "http://h/a/" is <<"http://h", "/",    *)
(* "a", "/">>, so that rstrip, lstrip, urljoin and concatenation are       *)
(* computed the way the code computes them.                                *)
(***************************************************************************)
EXTENDS Integers, Sequences, FiniteSets, TLC

VARIABLES
    caching,        \* ENABLE_CACHING (module constant of datarequester.py)
    text_cache,     \* DataRequester._text_cache      : url -> text
    header_cache,   \* DataRequester._header_cache    : url -> headers
    configxml_cache,\* DataRequester._configxml_cache : object url -> xml
    needs_flush,    \* DataRequester._needs_flush
    server,         \* the remote server: request url -> document it accepted
    registry,       \* plugin registry: the implementations installed, whether the
                    \* index is populated, the index
    last,           \* the last operation: arguments, requests issued, outcome
    written,        \* history: url -> xml cached by set_config since the last clear()
    stale,          \* history: one cache entry dropped by clear() and not read since,
                    \* and whether another operation has cached it again
    who,            \* history: the access object of the last operation and the one
                    \* of the last cached set_config since the last clear()
    views,          \* the remote server: the tree of views below the root view
    job_root        \* JobXML._root: the element tree of the job configuration

vars == <<caching, text_cache, header_cache, configxml_cache, needs_flush,
          server, registry, last, written, stale, who, views, job_root>>

(***************************************************************************)
(* Bounds and input sets                                                   *)
(***************************************************************************)
\* the caches grow until clear(): the model stops adding entries at MaxCached
MaxCached == 2

\* Python's None; every value of the model is a sequence of tokens
None == <<"None">>

\* raw URLs handed to the constructor and to clone
RawUrls == { <<"http://h">>, <<"http://h", "/", "\\">>,
             <<"http://h", "/", "j">>, <<"http://h", "/", "j", "/", "/">> }

Users == {None, <<>>, <<"user">>}
Passwords == {None, <<"pw">>}

\* documents written by set_config and post
Docs == {<<"x1">>, <<"x2">>}

\* the text the server holds for a url nobody has written to
InitialText == <<"x0">>

\* path arguments of get_text and get_headers
Paths == {None, <<"/", "config.xml">>}

\* path arguments of post
PostPaths == {None, <<"/", "createView">>}

\* query_params arguments of get_api_data
QueryParams == {None, <<"depth=0">>}

\* HTTP status codes the server answers with
Statuses == {200, 201, 500}

\* declared type identifiers of supported implementations
ListViewType == <<"hudson", ".model", ".ListView">>
NestedViewType == <<"hudson", ".plugins", ".nested__view", ".NestedView">>
SubversionType == <<"hudson", ".scm", ".SubversionSCM">>
SupportedTypes == {ListViewType, NestedViewType, SubversionType}

\* class names handed to plugin resolution: the supported ones, an unknown
\* one, and a prefix, a suffix and a case variant of a supported one
ClassNames ==
    SupportedTypes \cup {<<"unknown", ".Type">>, <<"hudson", ".model">>,
                         <<".model", ".ListView">>, <<"hudson", ".model", ".listview">>}

\* the implementations a process can have installed: a class and the type
\* identifier it declares
Implementation(name, type) == [name |-> name, type |-> type]
ListView == Implementation(<<"ListView">>, ListViewType)
NestedView == Implementation(<<"NestedView">>, NestedViewType)
Subversion == Implementation(<<"Subversion">>, SubversionType)
\* the supported implementation set
Implementations == <<ListView, NestedView, Subversion>>
\* the supported set, the same set found in another order, and a set in which
\* two implementations declare the same type identifier
ImplementationSets ==
    { Implementations,
      <<Subversion, ListView, NestedView>>,
      <<ListView, NestedView, Implementation(<<"OtherListView">>, ListViewType)>> }

\* XML elements: the tag, the plugin="name@version" attribute and the class
\* attribute (None: the element has no such attribute)
PluginAttrs == {None, <<"nested-view", "@", "123">>, <<"Subversion", "@", "1.53">>,
                <<"hudson", ".model", ".ListView", "@", "1">>}
ClassAttrs == {None, <<>>, SubversionType, <<"vector">>}
Tags == {<<"test">>, <<"scm">>, ListViewType}
Element(tag, plugin, class) == [tag |-> tag, plugin |-> plugin, class |-> class]
Elements == {Element(t, p, c) : t \in Tags, p \in PluginAttrs, c \in ClassAttrs}

\* the longest list of child elements in a section of a project document
MaxChildren == 2

\* child elements of the properties, publishers and builders sections: one
\* resolved by its tag, one by its class attribute, one of no supported type
ChildElements ==
    { Element(ListViewType, None, None),
      Element(<<"test">>, <<"Subversion", "@", "1.53">>, SubversionType),
      Element(<<"test">>, None, <<"vector">>) }

\* ElementTree's None for an element that find() does not find
NoNode == [tag |-> None]

\* a section element with its child elements
Section(tag, children) == [tag |-> tag, children |-> children]
ChildLists == UNION {[1..n -> ChildElements] : n \in 0..MaxChildren}

\* a project document: its scm element and its three plugin sections (NoNode
\* for a section the document does not have)
Project(scm_node, properties_node, publishers_node, builders_node) ==
    [tag |-> <<"project">>, scm |-> scm_node, properties |-> properties_node,
     publishers |-> publishers_node, builders |-> builders_node]

ScmNodes == {e \in Elements : e.tag = <<"scm">>}
SectionsOf(tag) == {NoNode} \cup {Section(tag, c) : c \in ChildLists}

\* the project documents of the model: any scm element beside three empty
\* sections, and any content in one of the three sections (the other two
\* empty) beside the scm element of the unit tests
ProjectDocuments ==
    LET empty(tag) == Section(tag, <<>>)
        svn == Element(<<"scm">>, <<"Subversion", "@", "1.53">>, SubversionType)
    IN  {Project(n, empty(<<"properties">>), empty(<<"publishers">>),
                 empty(<<"builders">>)) : n \in ScmNodes}
        \cup {Project(svn, p, empty(<<"publishers">>), empty(<<"builders">>)) :
                 p \in SectionsOf(<<"properties">>)}
        \cup {Project(svn, empty(<<"properties">>), p, empty(<<"builders">>)) :
                 p \in SectionsOf(<<"publishers">>)}
        \cup {Project(svn, empty(<<"properties">>), empty(<<"publishers">>), p) :
                 p \in SectionsOf(<<"builders">>)}

(***************************************************************************)
(* String helpers                                                          *)
(***************************************************************************)
Separators == {"/", "\\"}

RECURSIVE rstrip(_)
rstrip(s) ==
    IF s # <<>> /\ s[Len(s)] \in Separators
    THEN rstrip(SubSeq(s, 1, Len(s) - 1))
    ELSE s

RECURSIVE lstrip(_)
lstrip(s) ==
    IF s # <<>> /\ Head(s) \in Separators
    THEN lstrip(Tail(s))
    ELSE s

\* the part of a url up to and including its last "/"
RECURSIVE DirOf(_)
DirOf(s) ==
    IF s = <<>> \/ s[Len(s)] = "/"
    THEN s
    ELSE DirOf(SubSeq(s, 1, Len(s) - 1))

\* urllib's urljoin for a relative reference without dot segments
urljoin(base, ref) ==
    IF ref = <<>> THEN base
    ELSE IF DirOf(base) = <<>> THEN base \o <<"/">> \o ref
    ELSE DirOf(base) \o ref

\* the url with a "/" appended, trailing separators kept
NormalizeUrl_appends(raw) == raw \o <<"/">>

\* self._url = jenkins_url.rstrip("/\\") + "/"
NormalizeUrl(raw) == rstrip(raw) \o <<"/">>

\* if not username or not password: None else (username, password)
Credentials(username, password) ==
    IF username \in {None, <<>>} \/ password \in {None, <<>>}
    THEN None
    ELSE <<username, password>>

\* DataRequester.__init__: an access object is its url and its credentials
DataRequester(jenkins_url, username, password) ==
    [url |-> NormalizeUrl(jenkins_url), cred |-> Credentials(username, password)]

\* DataRequester.clone: the constructor on the new url (or on self._url) with
\* the credentials of this object
clone(self, new_url) ==
    LET clone_url == IF new_url # None THEN new_url ELSE self.url
    IN  IF self.cred # None
        THEN DataRequester(clone_url, self.cred[1], self.cred[2])
        ELSE DataRequester(clone_url, None, None)

\* the access objects of the model: the constructed ones and their clones
Constructed == {DataRequester(u, n, p) : u \in RawUrls, n \in Users, p \in Passwords}
Objects == Constructed \cup {clone(o, u) : o \in Constructed, u \in RawUrls \cup {None}}

\* tmp = self._url; if path is not None: tmp = urljoin(tmp, path.lstrip("/\\"))
PathUrl(o, path) ==
    IF path = None THEN o.url ELSE urljoin(o.url, lstrip(path))

\* urljoin(self._url, "api/python") [+ "?" + query_params]
ApiUrl(o, query_params) ==
    LET temp_url == urljoin(o.url, <<"api", "/", "python">>)
    IN  IF query_params = None THEN temp_url ELSE temp_url \o <<"?">> \o query_params

\* the address get_text("/config.xml") and post("/config.xml") use
ConfigUrl(o) == PathUrl(o, <<"/", "config.xml">>)

\* temp_path = cache_item + "/config.xml"
FlushUrl(cache_item) == cache_item \o <<"/", "config.xml">>

(***************************************************************************)
(* The server and the requests library                                     *)
(***************************************************************************)
Request(method, url, auth, body, ctype, status) ==
    [method |-> method, url |-> url, auth |-> auth, body |-> body,
     ctype |-> ctype, status |-> status]

\* req.text of a GET
TextOf(url) == IF url \in DOMAIN server THEN server[url] ELSE InitialText

\* req.headers of a GET
HeadersOf(url) == <<"headers">> \o url

\* requests.Response.raise_for_status: raises HTTPError for 4xx and 5xx only
RaisesForStatus(status) == status >= 400 /\ status < 600

\* the server replaces a configuration document by the body of a POST to its
\* config.xml that it answers with a 2xx status
Accepted(status) == status >= 200 /\ status < 300

ServerAfter(srv, req) ==
    IF /\ req.method = "POST"
       /\ req.body # None
       /\ req.url[Len(req.url)] = "config.xml"
       /\ Accepted(req.status)
    THEN (req.url :> req.body) @@ srv
    ELSE srv

RECURSIVE ServerAfterAll(_, _)
ServerAfterAll(srv, reqs) ==
    IF reqs = <<>> THEN srv
    ELSE ServerAfterAll(ServerAfter(srv, Head(reqs)), Tail(reqs))

\* what an operation did: the url it was about, its argument, the requests
\* it issued, what it returned or raised, the failure map of a flush, and
\* whether a resolution scanned the implementations
Outcome(op, key, arg, reqs, ret, raised, failed, scanned) ==
    [op |-> op, key |-> key, arg |-> arg, reqs |-> reqs, ret |-> ret,
     raised |-> raised, failed |-> failed, scanned |-> scanned]

NoFailures == <<>>

HTTPError == <<"HTTPError">>
JenkinsFlushFailure == <<"JenkinsFlushFailure">>

PopulationError == <<"PopulationError">>

\* the registry before its first population and after clear_registry()
Unpopulated(impls) == [impls |-> impls, populated |-> FALSE, index |-> <<>>]

\* no access object has acted
Nobody == [writer |-> None, actor |-> None]

\* no cache entry is tracked
NoEntry == [kind |-> "none", key |-> None, recached |-> FALSE]

(***************************************************************************)
(* The views of the server                                                 *)
(***************************************************************************)
\* the largest number of views below the root view
MaxViews == 4

\* names of views; two views of a tree may have the same name
ViewNames == {<<"y">>, <<"o">>}

\* the types of the views of a tree
ViewTypes == {ListViewType, NestedViewType}

\* the views below the root view 0, numbered 1..n: the view holding each, its
\* name and its type; a view lists the views it holds in the order of their
\* numbers
ViewTree(parent, name, type) == [parent |-> parent, name |-> name, type |-> type]

\* a server whose root view holds no views
NoViews == ViewTree(<<>>, <<>>, <<>>)

ViewsIn(tree) == 1..Len(tree.parent)

\* the views are numbered level by level, each level in listing order: every
\* view is held by the root or by a view of a lower number, and a view of a
\* higher number is not held by a view of a lower number than its predecessor
Parents(n) ==
    {p \in [1..n -> 0..(n - 1)] :
        \A i \in 1..n : p[i] < i /\ (i > 1 => p[i - 1] <= p[i])}

\* only views of the nested view type hold views
TypesFor(n, p) ==
    {ty \in [1..n -> ViewTypes] : \A i \in 1..n : p[i] # 0 => ty[p[i]] = NestedViewType}

Trees ==
    UNION { UNION { {ViewTree(p, nm, ty) : nm \in [1..n -> ViewNames],
                                           ty \in TypesFor(n, p)}
                    : p \in Parents(n) }
            : n \in 0..MaxViews }

\* cur_view['url'] of the api data: the url the server reports for a view
ViewUrl(i) == <<"http://h", "/", "view", "/", ToString(i), "/">>

(***************************************************************************)
(* Job configuration documents                                             *)
(***************************************************************************)
\* an XML string is a sequence of markup items: the XML declaration, a
\* comment, a start tag, an end tag, an empty-element tag, character data
Item(kind, tag, class, text) == [kind |-> kind, tag |-> tag, class |-> class, text |-> text]
Declaration == Item("declaration", None, None, None)
Comment == Item("comment", None, None, None)
StartTag(tag, class) == Item("start", tag, class, None)
EndTag(tag) == Item("end", tag, None, None)
EmptyTag(tag, class) == Item("empty", tag, class, None)
CharData(text) == Item("text", None, None, text)

\* an element of the tree: its tag, its class attribute, its text
NewElement(tag, class, text) == [tag |-> tag, class |-> class, text |-> text]

\* a JobXML object that was not constructed
NoRoot == [tag |-> None, children |-> <<>>]

\* paths of custom workspaces (test_job_xml.py)
WorkspacePaths == {<<"something/else">>, <<"some/new/path">>, <<>>}

\* the ways a job configuration spells its description, its custom workspace
\* and its scm element
DescriptionItems ==
    { <<EmptyTag(<<"description">>, None)>>,
      <<StartTag(<<"description">>, None), EndTag(<<"description">>)>>,
      <<StartTag(<<"description">>, None), CharData(<<"about">>),
        EndTag(<<"description">>)>> }

CustomWorkspaceItems ==
    { <<EmptyTag(<<"customWorkspace">>, None)>>,
      <<StartTag(<<"customWorkspace">>, None), EndTag(<<"customWorkspace">>)>>,
      <<StartTag(<<"customWorkspace">>, None), CharData(<<"my/test/workspace">>),
        EndTag(<<"customWorkspace">>)>> }

ScmItems == <<EmptyTag(<<"scm">>, <<"hudson", ".scm", ".NullSCM">>)>>

\* the job configurations: with and without XML declaration and comment, with
\* no custom workspace or one, before, between or after the other elements
ProjectXmls ==
    { decl \o <<StartTag(<<"project">>, None)>> \o note \o body
           \o <<EndTag(<<"project">>)>> :
        decl \in {<<>>, <<Declaration>>},
        note \in {<<>>, <<Comment>>},
        body \in { d \o ScmItems : d \in DescriptionItems }
             \cup { w \o d \o ScmItems : w \in CustomWorkspaceItems, d \in DescriptionItems }
             \cup { d \o w \o ScmItems : w \in CustomWorkspaceItems, d \in DescriptionItems }
             \cup { d \o ScmItems \o w : w \in CustomWorkspaceItems, d \in DescriptionItems } }

\* a configuration of another kind of job
OtherXmls ==
    { <<StartTag(<<"matrix-project">>, None)>> \o ScmItems
          \o <<EndTag(<<"matrix-project">>)>> }

AssertionError == <<"AssertionError">>

(***************************************************************************)
(* Init                                                                    *)
(***************************************************************************)
Init ==
    /\ caching \in BOOLEAN
    /\ text_cache = <<>>
    /\ header_cache = <<>>
    /\ configxml_cache = <<>>
    /\ needs_flush = FALSE
    /\ server = <<>>
    /\ registry = Unpopulated(Implementations)
    /\ last = Outcome("init", None, None, <<>>, None, None, NoFailures, FALSE)
    /\ written = <<>>
    /\ stale = NoEntry
    /\ who = Nobody
    /\ views = NoViews
    /\ job_root = NoRoot


(***************************************************************************)
(* History of clear(): the tracked entry                                   *)
(***************************************************************************)
Tracked(kind, key) == stale.kind = kind /\ stale.key = key

\* the tracked entry has had its first read since the clear()
Done == [kind |-> "done", key |-> stale.key, recached |-> FALSE]

\* the config.xml address of the access objects with this url
ConfigUrlOf(url) == ConfigUrl([url |-> url, cred |-> None])

\* after get_text or get_api_data read url; stored: its text is now cached
AfterTextRead(url, stored) ==
    IF Tracked("text", url) THEN Done
    ELSE IF stale.kind = "config" /\ ConfigUrlOf(stale.key) = url /\ stored
    THEN [stale EXCEPT !.recached = TRUE]
    ELSE stale

AfterHeaderRead(url) == IF Tracked("header", url) THEN Done ELSE stale

\* after config_xml of the object with this url; stored: it went on to the
\* text of its config.xml address, which is now cached
AfterConfigRead(url, stored) ==
    IF Tracked("config", url) THEN Done
    ELSE IF Tracked("text", ConfigUrlOf(url)) /\ stored
    THEN [stale EXCEPT !.recached = TRUE]
    ELSE stale

\* after config_xml's setter cached a document for the object with this url
AfterConfigWrite(url) ==
    IF Tracked("config", url) THEN [stale EXCEPT !.recached = TRUE] ELSE stale

\* the entries a clear() drops: every entry of the three caches (the
\* configuration of an object is cached in the write-back cache or as the
\* text of its config.xml address), and the entry tracked so far if it has
\* not been read
Dropped ==
    {[kind |-> "text", key |-> k, recached |-> FALSE] : k \in DOMAIN text_cache}
    \cup {[kind |-> "header", key |-> k, recached |-> FALSE] : k \in DOMAIN header_cache}
    \cup {[kind |-> "config", key |-> o.url, recached |-> FALSE] :
            o \in {x \in Objects : \/ x.url \in DOMAIN configxml_cache
                                   \/ ConfigUrl(x) \in DOMAIN text_cache}}
    \cup {IF stale.kind = "done" THEN NoEntry ELSE [stale EXCEPT !.recached = FALSE]}
    \cup {NoEntry}

(***************************************************************************)
(* Reads                                                                   *)
(***************************************************************************)
Caches == <<text_cache, header_cache, configxml_cache, needs_flush>>
History == <<written, stale>>

\* _get_raw_text storing the text whether or not caching is enabled
get_raw_text_always_stores(self, url, status) ==
    IF url \in DOMAIN text_cache
    THEN [reqs |-> <<>>, ret |-> text_cache[url], raised |-> None, cache |-> text_cache]
    ELSE LET req == Request("GET", url, self.cred, None, None, status)
         IN  IF status # 200 /\ RaisesForStatus(status)
             THEN [reqs |-> <<req>>, ret |-> None, raised |-> HTTPError,
                   cache |-> text_cache]
             ELSE [reqs |-> <<req>>, ret |-> TextOf(url), raised |-> None,
                   cache |-> (url :> TextOf(url)) @@ text_cache]

\* _get_raw_text without the look-up in the text cache
get_raw_text_ignores_cache(self, url, status) ==
    LET req == Request("GET", url, self.cred, None, None, status)
    IN  IF status # 200 /\ RaisesForStatus(status)
        THEN [reqs |-> <<req>>, ret |-> None, raised |-> HTTPError,
              cache |-> text_cache]
        ELSE [reqs |-> <<req>>, ret |-> TextOf(url), raised |-> None,
              cache |-> IF caching
                        THEN (url :> TextOf(url)) @@ text_cache
                        ELSE text_cache]

\* DataRequester._get_raw_text: the requests it issues, what it returns or
\* raises and the text cache it leaves
get_raw_text(self, url, status) ==
    IF url \in DOMAIN text_cache
    THEN [reqs |-> <<>>, ret |-> text_cache[url], raised |-> None, cache |-> text_cache]
    ELSE LET req == Request("GET", url, self.cred, None, None, status)
         IN  IF status # 200 /\ RaisesForStatus(status)
             THEN [reqs |-> <<req>>, ret |-> None, raised |-> HTTPError,
                   cache |-> text_cache]
             ELSE [reqs |-> <<req>>, ret |-> TextOf(url), raised |-> None,
                   cache |-> IF caching
                             THEN (url :> TextOf(url)) @@ text_cache
                             ELSE text_cache]

get_text(self, path, status) ==
    LET tmp == PathUrl(self, path)
        r == get_raw_text(self, tmp, status)
    IN  /\ text_cache' = r.cache
        /\ last' = Outcome("get_text", tmp, path, r.reqs, r.ret, r.raised,
                           NoFailures, FALSE)
        /\ stale' = AfterTextRead(tmp, tmp \in DOMAIN r.cache)
        /\ UNCHANGED <<caching, header_cache, configxml_cache, needs_flush,
                       server, registry, written>>

\* eval(txt) of get_api_data
Eval(txt) == <<"eval">> \o txt

get_api_data(self, query_params, status) ==
    LET temp_url == ApiUrl(self, query_params)
        r == get_raw_text(self, temp_url, status)
    IN  /\ text_cache' = r.cache
        /\ last' = Outcome("get_api_data", temp_url, query_params, r.reqs,
                           IF r.raised = None THEN Eval(r.ret) ELSE None,
                           r.raised, NoFailures, FALSE)
        /\ stale' = AfterTextRead(temp_url, temp_url \in DOMAIN r.cache)
        /\ UNCHANGED <<caching, header_cache, configxml_cache, needs_flush,
                       server, registry, written>>

\* get_headers that stores the headers whether caching is enabled or not
get_headers_always_stores(self, path, status) ==
    LET temp_path == PathUrl(self, path)
        req == Request("GET", temp_path, self.cred, None, None, status)
    IN  /\ IF temp_path \in DOMAIN header_cache
           THEN /\ header_cache' = header_cache
                /\ last' = Outcome("get_headers", temp_path, path, <<>>,
                                   header_cache[temp_path], None, NoFailures, FALSE)
           ELSE IF status # 200 /\ RaisesForStatus(status)
           THEN /\ header_cache' = header_cache
                /\ last' = Outcome("get_headers", temp_path, path, <<req>>,
                                   None, HTTPError, NoFailures, FALSE)
           ELSE /\ header_cache' = (temp_path :> HeadersOf(temp_path)) @@ header_cache
                /\ last' = Outcome("get_headers", temp_path, path, <<req>>,
                                   HeadersOf(temp_path), None, NoFailures, FALSE)
        /\ stale' = AfterHeaderRead(temp_path)
        /\ UNCHANGED <<caching, text_cache, configxml_cache, needs_flush,
                       server, registry, written>>

get_headers(self, path, status) ==
    LET temp_path == PathUrl(self, path)
        req == Request("GET", temp_path, self.cred, None, None, status)
    IN  /\ IF temp_path \in DOMAIN header_cache
           THEN /\ header_cache' = header_cache
                /\ last' = Outcome("get_headers", temp_path, path, <<>>,
                                   header_cache[temp_path], None, NoFailures, FALSE)
           ELSE IF status # 200 /\ RaisesForStatus(status)
           THEN /\ header_cache' = header_cache
                /\ last' = Outcome("get_headers", temp_path, path, <<req>>,
                                   None, HTTPError, NoFailures, FALSE)
           ELSE /\ header_cache' = IF caching
                                   THEN (temp_path :> HeadersOf(temp_path)) @@ header_cache
                                   ELSE header_cache
                /\ last' = Outcome("get_headers", temp_path, path, <<req>>,
                                   HeadersOf(temp_path), None, NoFailures, FALSE)
        /\ stale' = AfterHeaderRead(temp_path)
        /\ UNCHANGED <<caching, text_cache, configxml_cache, needs_flush,
                       server, registry, written>>

\* config_xml (getter) without the look-up in the write-back cache
config_xml_skips_writeback(self, status) ==
    LET r == get_raw_text(self, ConfigUrl(self), status)
    IN  /\ text_cache' = r.cache
        /\ last' = Outcome("config_xml", self.url, None, r.reqs, r.ret,
                           r.raised, NoFailures, FALSE)
        /\ stale' = AfterConfigRead(self.url, ConfigUrl(self) \in DOMAIN r.cache)
        /\ UNCHANGED <<caching, header_cache, configxml_cache, needs_flush,
                       server, registry, written>>

\* config_xml (getter) answering from the write-back cache only on the
\* access object that wrote last
config_xml_own_writes_only(self, status) ==
    IF self.url \in DOMAIN configxml_cache /\ who.writer = self
    THEN /\ last' = Outcome("config_xml", self.url, None, <<>>,
                            configxml_cache[self.url], None, NoFailures, FALSE)
         /\ stale' = AfterConfigRead(self.url, FALSE)
         /\ UNCHANGED <<caching, Caches, server, registry, written>>
    ELSE LET r == get_raw_text(self, ConfigUrl(self), status)
         IN  /\ text_cache' = r.cache
             /\ last' = Outcome("config_xml", self.url, None, r.reqs, r.ret,
                                r.raised, NoFailures, FALSE)
             /\ stale' = AfterConfigRead(self.url, ConfigUrl(self) \in DOMAIN r.cache)
             /\ UNCHANGED <<caching, header_cache, configxml_cache, needs_flush,
                            server, registry, written>>

\* DataRequester.config_xml (getter)
config_xml(self, status) ==
    IF self.url \in DOMAIN configxml_cache
    THEN /\ last' = Outcome("config_xml", self.url, None, <<>>,
                            configxml_cache[self.url], None, NoFailures, FALSE)
         /\ stale' = AfterConfigRead(self.url, FALSE)
         /\ UNCHANGED <<caching, Caches, server, registry, written>>
    ELSE LET r == get_raw_text(self, ConfigUrl(self), status)
         IN  /\ text_cache' = r.cache
             /\ last' = Outcome("config_xml", self.url, None, r.reqs, r.ret,
                                r.raised, NoFailures, FALSE)
             /\ stale' = AfterConfigRead(self.url, ConfigUrl(self) \in DOMAIN r.cache)
             /\ UNCHANGED <<caching, header_cache, configxml_cache, needs_flush,
                            server, registry, written>>

\* DataRequester.is_dirty
is_dirty(self) ==
    /\ last' = Outcome("is_dirty", self.url, None, <<>>,
                       IF needs_flush THEN <<"True">> ELSE <<"False">>,
                       None, NoFailures, FALSE)
    /\ UNCHANGED <<caching, Caches, server, registry, History>>

(***************************************************************************)
(* Writes                                                                  *)
(***************************************************************************)
\* the args dictionary of post: its 'data' and 'headers' keys (None: no key)
NoArgs == [data |-> None, headers |-> None]
XmlHeaders == <<"Content-Type", "text/xml">>
PostArgs == {NoArgs, [data |-> <<"x1">>, headers |-> XmlHeaders]}

\* DataRequester.post: the request it issues and whether it raises
post_result(self, path, args, status) ==
    LET temp_path == PathUrl(self, path)
        req == Request("POST", temp_path, self.cred, args.data, args.headers, status)
    IN  [url |-> temp_path, reqs |-> <<req>>,
         raised |-> IF status # 200 /\ RaisesForStatus(status) THEN HTTPError ELSE None]

post(self, path, args, status) ==
    LET r == post_result(self, path, args, status)
    IN  /\ server' = ServerAfterAll(server, r.reqs)
        /\ last' = Outcome("post", r.url, args.data, r.reqs, None, r.raised,
                           NoFailures, FALSE)
        /\ UNCHANGED <<caching, Caches, registry, History>>

\* config_xml (setter) keeping the document already cached for the object
config_xml_setter_first_write_wins(self, new_xml, status) ==
    IF caching
    THEN /\ configxml_cache' = configxml_cache @@ (self.url :> new_xml)
         /\ needs_flush' = TRUE
         /\ written' = (self.url :> new_xml) @@ written
         /\ stale' = AfterConfigWrite(self.url)
         /\ last' = Outcome("config_xml.setter", self.url, new_xml, <<>>,
                            None, None, NoFailures, FALSE)
         /\ UNCHANGED <<caching, text_cache, header_cache, server, registry>>
    ELSE LET args == [data |-> new_xml, headers |-> XmlHeaders]
             r == post_result(self, <<"/", "config.xml">>, args, status)
         IN  /\ server' = ServerAfterAll(server, r.reqs)
             /\ last' = Outcome("config_xml.setter", self.url, new_xml, r.reqs,
                                None, r.raised, NoFailures, FALSE)
             /\ UNCHANGED <<caching, Caches, registry, History>>

\* DataRequester.config_xml (setter)
config_xml_setter(self, new_xml, status) ==
    IF caching
    THEN /\ configxml_cache' = (self.url :> new_xml) @@ configxml_cache
         /\ needs_flush' = TRUE
         /\ written' = (self.url :> new_xml) @@ written
         /\ stale' = AfterConfigWrite(self.url)
         /\ last' = Outcome("config_xml.setter", self.url, new_xml, <<>>,
                            None, None, NoFailures, FALSE)
         /\ UNCHANGED <<caching, text_cache, header_cache, server, registry>>
    ELSE LET args == [data |-> new_xml, headers |-> XmlHeaders]
             r == post_result(self, <<"/", "config.xml">>, args, status)
         IN  /\ server' = ServerAfterAll(server, r.reqs)
             /\ last' = Outcome("config_xml.setter", self.url, new_xml, r.reqs,
                                None, r.raised, NoFailures, FALSE)
             /\ UNCHANGED <<caching, Caches, registry, History>>

\* the orders in which a dictionary with these keys can be iterated
Orders(keys) ==
    {ord \in [1..Cardinality(keys) -> keys] :
        \A i, j \in 1..Cardinality(keys) : i # j => ord[i] # ord[j]}

\* flush giving up at the first POST that is not answered with 200
flush_stops_at_failure(self, ord, statuses) ==
    IF ~needs_flush
    THEN /\ last' = Outcome("flush", self.url, None, <<>>, None, None,
                            NoFailures, FALSE)
         /\ UNCHANGED <<caching, Caches, server, registry, History>>
    ELSE LET bad == {i \in 1..Len(ord) : statuses[ord[i]] # 200}
             n == IF bad = {} THEN Len(ord)
                  ELSE CHOOSE i \in bad : \A j \in bad : i <= j
             reqs == [i \in 1..n |->
                        Request("POST", FlushUrl(ord[i]), self.cred,
                                configxml_cache[ord[i]], XmlHeaders, statuses[ord[i]])]
             failed_keys == {ord[i] : i \in bad \cap 1..n}
             failed_items == [cache_item \in failed_keys |-> statuses[cache_item]]
         IN  /\ needs_flush' = FALSE
             /\ server' = ServerAfterAll(server, reqs)
             /\ last' = Outcome("flush", self.url, None, reqs, None,
                                IF failed_keys # {} THEN JenkinsFlushFailure ELSE None,
                                failed_items, FALSE)
             /\ UNCHANGED <<caching, text_cache, header_cache, configxml_cache,
                            registry, History>>

\* flush that drops the entries the server accepted
flush_drops_committed(self, ord, statuses) ==
    IF ~needs_flush
    THEN /\ last' = Outcome("flush", self.url, None, <<>>, None, None,
                            NoFailures, FALSE)
         /\ UNCHANGED <<caching, Caches, server, registry, History>>
    ELSE LET reqs == [i \in 1..Len(ord) |->
                        Request("POST", FlushUrl(ord[i]), self.cred,
                                configxml_cache[ord[i]], XmlHeaders, statuses[ord[i]])]
             failed_keys == {cache_item \in DOMAIN configxml_cache :
                                statuses[cache_item] # 200}
             failed_items == [cache_item \in failed_keys |-> statuses[cache_item]]
         IN  /\ needs_flush' = FALSE
             /\ configxml_cache' = [cache_item \in failed_keys |->
                                       configxml_cache[cache_item]]
             /\ server' = ServerAfterAll(server, reqs)
             /\ last' = Outcome("flush", self.url, None, reqs, None,
                                IF failed_keys # {} THEN JenkinsFlushFailure ELSE None,
                                failed_items, FALSE)
             /\ UNCHANGED <<caching, text_cache, header_cache, registry, History>>

\* flush without the test of the dirty flag
flush_unguarded(self, ord, statuses) ==
    LET reqs == [i \in 1..Len(ord) |->
                    Request("POST", FlushUrl(ord[i]), self.cred,
                            configxml_cache[ord[i]], XmlHeaders, statuses[ord[i]])]
        failed_keys == {cache_item \in DOMAIN configxml_cache :
                           statuses[cache_item] # 200}
        failed_items == [cache_item \in failed_keys |-> statuses[cache_item]]
    IN  /\ needs_flush' = FALSE
        /\ server' = ServerAfterAll(server, reqs)
        /\ last' = Outcome("flush", self.url, None, reqs, None,
                           IF failed_keys # {} THEN JenkinsFlushFailure ELSE None,
                           failed_items, FALSE)
        /\ UNCHANGED <<caching, text_cache, header_cache, configxml_cache,
                       registry, History>>

\* DataRequester.flush: one POST per write-back entry, in the order ord, the
\* server answering the entry for cache_item with statuses[cache_item]
flush(self, ord, statuses) ==
    IF ~needs_flush
    THEN /\ last' = Outcome("flush", self.url, None, <<>>, None, None,
                            NoFailures, FALSE)
         /\ UNCHANGED <<caching, Caches, server, registry, History>>
    ELSE LET reqs == [i \in 1..Len(ord) |->
                        Request("POST", FlushUrl(ord[i]), self.cred,
                                configxml_cache[ord[i]], XmlHeaders, statuses[ord[i]])]
             failed_keys == {cache_item \in DOMAIN configxml_cache :
                                statuses[cache_item] # 200}
             failed_items == [cache_item \in failed_keys |-> statuses[cache_item]]
         IN  /\ needs_flush' = FALSE
             /\ server' = ServerAfterAll(server, reqs)
             /\ last' = Outcome("flush", self.url, None, reqs, None,
                                IF failed_keys # {} THEN JenkinsFlushFailure ELSE None,
                                failed_items, FALSE)
             /\ UNCHANGED <<caching, text_cache, header_cache, configxml_cache,
                            registry, History>>

\* clear leaving the write-back cache as it is
clear_keeps_writeback(tracked) ==
    /\ configxml_cache' = configxml_cache
    /\ header_cache' = <<>>
    /\ text_cache' = <<>>
    /\ needs_flush' = FALSE
    /\ written' = <<>>
    /\ stale' = tracked
    /\ last' = Outcome("clear", None, None, <<>>, None, None, NoFailures, FALSE)
    /\ UNCHANGED <<caching, server, registry>>

\* clear leaving the dirty flag as it is
clear_keeps_flag(tracked) ==
    /\ configxml_cache' = <<>>
    /\ header_cache' = <<>>
    /\ text_cache' = <<>>
    /\ needs_flush' = needs_flush
    /\ written' = <<>>
    /\ stale' = tracked
    /\ last' = Outcome("clear", None, None, <<>>, None, None, NoFailures, FALSE)
    /\ UNCHANGED <<caching, server, registry>>

\* clear leaving the text cache as it is
clear_keeps_text(tracked) ==
    /\ configxml_cache' = <<>>
    /\ header_cache' = <<>>
    /\ text_cache' = text_cache
    /\ needs_flush' = FALSE
    /\ written' = <<>>
    /\ stale' = tracked
    /\ last' = Outcome("clear", None, None, <<>>, None, None, NoFailures, FALSE)
    /\ UNCHANGED <<caching, server, registry>>

\* clear that also invalidates the plugin registry
clear_resets_registry(tracked) ==
    /\ configxml_cache' = <<>>
    /\ header_cache' = <<>>
    /\ text_cache' = <<>>
    /\ needs_flush' = FALSE
    /\ written' = <<>>
    /\ stale' = tracked
    /\ registry' = Unpopulated(registry.impls)
    /\ last' = Outcome("clear", None, None, <<>>, None, None, NoFailures, FALSE)
    /\ UNCHANGED <<caching, server>>

\* DataRequester.clear (classmethod); tracked: the dropped entry the history
\* follows from here on
clear(tracked) ==
    /\ configxml_cache' = <<>>
    /\ header_cache' = <<>>
    /\ text_cache' = <<>>
    /\ needs_flush' = FALSE
    /\ written' = <<>>
    /\ stale' = tracked
    /\ last' = Outcome("clear", None, None, <<>>, None, None, NoFailures, FALSE)
    /\ UNCHANGED <<caching, server, registry>>

(***************************************************************************)
(* Plugin registry                                                         *)
(***************************************************************************)
\* the None returned where an implementation or a handler is looked for
NoPlugin == [type |-> None]

\* two of the implementations declare the same type identifier
HasDuplicateTypes(impls) ==
    \E i, j \in 1..Len(impls) : i # j /\ impls[i].type = impls[j].type

\* a scan that indexes implementations of one declared type twice, the later
\* one taking the place of the earlier one at look-up
populate_overwrites(reg) ==
    [registry |-> [reg EXCEPT !.populated = TRUE,
                              !.index = [i \in 1..Len(reg.impls) |->
                                            reg.impls[Len(reg.impls) + 1 - i]]],
     raised |-> None]

\* a scan that keeps the first implementation of every declared type and
\* reports nothing
populate_keeps_first(reg) ==
    LET firsts == {i \in 1..Len(reg.impls) :
                      \A j \in 1..(i - 1) : reg.impls[j].type # reg.impls[i].type}
        nth(k) == CHOOSE i \in firsts : Cardinality({j \in firsts : j < i}) = k - 1
    IN  [registry |-> [reg EXCEPT !.populated = TRUE,
                                  !.index = [k \in 1..Cardinality(firsts) |->
                                                reg.impls[nth(k)]]],
         raised |-> None]

\* population: scan every implementation and index it by the type identifier
\* it declares; duplicate declared types fail here and leave no index
populate(reg) ==
    IF HasDuplicateTypes(reg.impls)
    THEN [registry |-> reg, raised |-> PopulationError]
    ELSE [registry |-> [reg EXCEPT !.populated = TRUE, !.index = reg.impls],
          raised |-> None]

\* the registry scanning on every request
populated_rescans(reg) ==
    LET r == populate(reg)
    IN  [registry |-> r.registry, raised |-> r.raised, scanned |-> TRUE]

\* the index a request reads: populated by a scan on the first request,
\* the cached one afterwards
populated(reg) ==
    IF reg.populated
    THEN [registry |-> reg, raised |-> None, scanned |-> FALSE]
    ELSE LET r == populate(reg)
         IN  [registry |-> r.registry, raised |-> r.raised, scanned |-> TRUE]

\* look-up matching every class name that starts with the given one
lookup_prefix(index, class_name) ==
    LET hits == {i \in 1..Len(index) :
                    /\ Len(index[i].type) >= Len(class_name)
                    /\ SubSeq(index[i].type, 1, Len(class_name)) = class_name}
    IN  IF hits = {} THEN NoPlugin
        ELSE index[CHOOSE i \in hits : \A j \in hits : i <= j]

\* look-up by exact match of the declared type with class_name
lookup(index, class_name) ==
    LET hits == {i \in 1..Len(index) : index[i].type = class_name}
    IN  IF hits = {} THEN NoPlugin
        ELSE index[CHOOSE i \in hits : \A j \in hits : i <= j]

\* get_plugins(): the implementations of the index
get_plugins ==
    LET r == populated(registry)
    IN  /\ registry' = r.registry
        /\ last' = Outcome("get_plugins", None, None, <<>>,
                           IF r.raised = None THEN r.registry.index ELSE None,
                           r.raised, NoFailures, r.scanned)
        /\ UNCHANGED <<caching, Caches, server, History>>

\* resolve(class_name): the implementation indexed under class_name, or None
resolve(class_name) ==
    LET r == populated(registry)
    IN  /\ registry' = r.registry
        /\ last' = Outcome("resolve", None, class_name, <<>>,
                           IF r.raised = None
                           THEN lookup(r.registry.index, class_name)
                           ELSE NoPlugin,
                           r.raised, NoFailures, r.scanned)
        /\ UNCHANGED <<caching, Caches, server, History>>

\* clear_registry(): the next request scans again
clear_registry ==
    /\ registry' = Unpopulated(registry.impls)
    /\ last' = Outcome("clear_registry", None, None, <<>>, None, None,
                       NoFailures, FALSE)
    /\ UNCHANGED <<caching, Caches, server, History>>

(***************************************************************************)
(* Plugin type identification                                              *)
(***************************************************************************)
\* str.split(sep): the parts of s between the separators
RECURSIVE split(_, _)
split(s, sep) ==
    LET at == {i \in 1..Len(s) : s[i] = sep}
    IN  IF at = {} THEN <<s>>
        ELSE LET i == CHOOSE k \in at : \A j \in at : k <= j
             IN  <<SubSeq(s, 1, i - 1)>> \o split(SubSeq(s, i + 1, Len(s)), sep)

\* PluginXML.get_module_name: the name of plugin="name@version"
get_module_name(node) ==
    IF node.plugin = None THEN None ELSE split(node.plugin, "@")[1]

\* get_version returning everything from the separator on
get_version_keeps_separator(node) ==
    IF node.plugin = None THEN None
    ELSE SubSeq(node.plugin, Len(get_module_name(node)) + 1, Len(node.plugin))

\* PluginXML.get_version: the version of plugin="name@version"
get_version(node) ==
    IF node.plugin = None THEN None ELSE split(node.plugin, "@")[2]

\* get_class_name reading the tag whatever the attributes
get_class_name_from_node_only(node) == node.tag

\* PluginXML.get_class_name: the class attribute verbatim when the element
\* has one, the tag name otherwise
get_class_name(node) ==
    IF node.class # None THEN node.class ELSE node.tag

\* the type identifier of an element: (module_name, version, class_name)
PluginXML(node) ==
    /\ last' = Outcome("PluginXML", None, node, <<>>,
                       [module_name |-> get_module_name(node),
                        version |-> get_version(node),
                        class_name |-> get_class_name(node)],
                       None, NoFailures, FALSE)
    /\ UNCHANGED <<caching, Caches, server, registry, History>>

(***************************************************************************)
(* Plugin resolution and the job configuration document                    *)
(***************************************************************************)
\* get_plugin_name: the class name resolution looks an element up by
get_plugin_name(node) == get_class_name(node)

\* a handler: the implementation resolved, bound to the XML subtree
Handler(impl, node) == [type |-> impl.type, name |-> impl.name, node |-> node]

\* create_xml_plugin(node) on the registry reg: the handler of the
\* implementation indexed under the element's class name, or None
create_xml_plugin(reg, node) ==
    LET r == populated(reg)
        impl == lookup(r.registry.index, get_plugin_name(node))
    IN  [registry |-> r.registry, raised |-> r.raised, scanned |-> r.scanned,
         ret |-> IF r.raised # None \/ impl = NoPlugin
                 THEN NoPlugin
                 ELSE Handler(impl, node)]

PluginNotSupportedError(plugin_name) == <<"PluginNotSupportedError">> \o plugin_name
TypeError == <<"TypeError">>

\* ElementTree find: the child element with this tag, or None
find(root, tag) == root[tag]

\* JobXML.scm resolving the scm element by its tag only
scm_by_tag(root) ==
    LET node == find(root, "scm")
        r == create_xml_plugin(registry, Element(node.tag, None, None))
    IN  /\ registry' = r.registry
        /\ last' = Outcome("scm", None, root, <<>>, r.ret,
                           IF r.raised # None THEN r.raised
                           ELSE IF r.ret # NoPlugin THEN None
                           ELSE PluginNotSupportedError(get_plugin_name(node)),
                           NoFailures, r.scanned)
        /\ UNCHANGED <<caching, Caches, server, History>>

\* JobXML.scm handing the caller the None of an unresolved element
scm_returns_none(root) ==
    LET node == find(root, "scm")
        r == create_xml_plugin(registry, node)
    IN  /\ registry' = r.registry
        /\ last' = Outcome("scm", None, root, <<>>, r.ret, r.raised,
                           NoFailures, r.scanned)
        /\ UNCHANGED <<caching, Caches, server, History>>

\* JobXML.scm refusing an scm element that names no plugin version
scm_requires_version(root) ==
    LET node == find(root, "scm")
        r == create_xml_plugin(registry, node)
        ok == r.ret # NoPlugin /\ node.plugin # None
    IN  /\ registry' = r.registry
        /\ last' = Outcome("scm", None, root, <<>>,
                           IF ok THEN r.ret ELSE NoPlugin,
                           IF r.raised # None THEN r.raised
                           ELSE IF ok THEN None
                           ELSE PluginNotSupportedError(get_plugin_name(node)),
                           NoFailures, r.scanned)
        /\ UNCHANGED <<caching, Caches, server, History>>

\* JobXML.scm
scm(root) ==
    LET node == find(root, "scm")
        r == create_xml_plugin(registry, node)
    IN  /\ registry' = r.registry
        /\ last' = Outcome("scm", None, root, <<>>, r.ret,
                           IF r.raised # None THEN r.raised
                           ELSE IF r.ret # NoPlugin THEN None
                           ELSE PluginNotSupportedError(get_plugin_name(node)),
                           NoFailures, r.scanned)
        /\ UNCHANGED <<caching, Caches, server, History>>

\* the loop of properties, publishers and builders over the child elements:
\* retval, the exception that ended it, and the registry it leaves
RECURSIVE plugins_of(_, _)
plugins_of(reg, nodes) ==
    IF nodes = <<>>
    THEN [registry |-> reg, ret |-> <<>>, raised |-> None, scanned |-> FALSE]
    ELSE LET r == create_xml_plugin(reg, Head(nodes))
         IN  IF r.raised # None
             THEN [registry |-> r.registry, ret |-> <<>>, raised |-> r.raised,
                   scanned |-> r.scanned]
             ELSE LET rest == plugins_of(r.registry, Tail(nodes))
                  IN  [registry |-> rest.registry,
                       ret |-> (IF r.ret # NoPlugin THEN <<r.ret>> ELSE <<>>) \o rest.ret,
                       raised |-> rest.raised,
                       scanned |-> r.scanned \/ rest.scanned]

\* nodes = self._root.find(tag); for node in nodes: ...; return retval
plugin_list(op, root, tag) ==
    LET nodes == find(root, tag)
    IN  IF nodes = NoNode
        THEN /\ last' = Outcome(op, None, root, <<>>, None, TypeError,
                                NoFailures, FALSE)
             /\ UNCHANGED <<caching, Caches, server, registry, History>>
        ELSE LET r == plugins_of(registry, nodes.children)
             IN  /\ registry' = r.registry
                 /\ last' = Outcome(op, None, root, <<>>, r.ret, r.raised,
                                    NoFailures, r.scanned)
                 /\ UNCHANGED <<caching, Caches, server, History>>

\* JobXML.properties, JobXML.publishers, JobXML.builders
properties(root) == plugin_list("properties", root, "properties")
publishers(root) == plugin_list("publishers", root, "publishers")
builders(root) == plugin_list("builders", root, "builders")

\* create_xml_plugin called on an element
create(node) ==
    LET r == create_xml_plugin(registry, node)
    IN  /\ registry' = r.registry
        /\ last' = Outcome("create_xml_plugin", None, node, <<>>, r.ret,
                           r.raised, NoFailures, r.scanned)
        /\ UNCHANGED <<caching, Caches, server, History>>

(***************************************************************************)
(* Nested views                                                            *)
(***************************************************************************)
\* the access object of the root view
RootView == DataRequester(ViewUrl(0), None, None)

\* the view the server keeps at the url of an access object
ViewAt(tree, url) ==
    CHOOSE i \in {0} \cup ViewsIn(tree) : NormalizeUrl(ViewUrl(i)) = url

TypeAt(tree, i) == IF i = 0 THEN NestedViewType ELSE tree.type[i]

\* data['views'] of self._controller.get_api_data(): name and url of the views
\* a view holds, in listing order
RECURSIVE Listing(_, _, _)
Listing(tree, i, from) ==
    IF from > Len(tree.parent) THEN <<>>
    ELSE (IF tree.parent[from] = i
          THEN <<[name |-> tree.name[from], url |-> ViewUrl(from)]>>
          ELSE <<>>) \o Listing(tree, i, from + 1)

raw_views(tree, self) == Listing(tree, ViewAt(tree, self.url), 1)

\* the request of get_api_data() while nothing is cached
ApiGet(self) == Request("GET", ApiUrl(self, None), self.cred, None, None, 200)

\* View.create(controller, master): the handler of the type the server keeps
\* for the view at the url of the controller
View_create(tree, controller) ==
    [type |-> TypeAt(tree, ViewAt(tree, controller.url)), controller |-> controller]

\* NestedView.views
views_of(tree, self) ==
    LET data == raw_views(tree, self)
    IN  [ret |-> [k \in 1..Len(data) |-> View_create(tree, clone(self, data[k].url))],
         reqs |-> <<ApiGet(self)>>]

RECURSIVE find_view(_, _, _)
RECURSIVE find_view_nested(_, _, _, _, _)
RECURSIVE find_view_depth_first(_, _, _)
RECURSIVE find_view_depth_first_from(_, _, _, _, _)

\* the second loop of find_view, from the k-th view of the listing on
find_view_nested(tree, self, view_name, data, k) ==
    IF k > Len(data) THEN [ret |-> NoPlugin, reqs |-> <<>>]
    ELSE LET temp_view == View_create(tree, clone(self, data[k].url))
         IN  IF temp_view.type = NestedViewType
             THEN LET sub_view == find_view(tree, temp_view.controller, view_name)
                  IN  IF sub_view.ret # NoPlugin
                      THEN sub_view
                      ELSE LET rest == find_view_nested(tree, self, view_name, data, k + 1)
                           IN  [ret |-> rest.ret, reqs |-> sub_view.reqs \o rest.reqs]
             ELSE find_view_nested(tree, self, view_name, data, k + 1)

\* find_view with one loop: a view is compared and searched before the views
\* listed after it are compared
find_view_depth_first_from(tree, self, view_name, data, k) ==
    IF k > Len(data) THEN [ret |-> NoPlugin, reqs |-> <<>>]
    ELSE LET temp_view == View_create(tree, clone(self, data[k].url))
         IN  IF data[k].name = view_name
             THEN [ret |-> temp_view, reqs |-> <<>>]
             ELSE IF temp_view.type = NestedViewType
             THEN LET sub_view == find_view(tree, temp_view.controller, view_name)
                  IN  IF sub_view.ret # NoPlugin
                      THEN sub_view
                      ELSE LET rest == find_view_depth_first_from(tree, self, view_name,
                                                                  data, k + 1)
                           IN  [ret |-> rest.ret, reqs |-> sub_view.reqs \o rest.reqs]
             ELSE find_view_depth_first_from(tree, self, view_name, data, k + 1)

find_view_depth_first(tree, self, view_name) ==
    LET data == raw_views(tree, self)
        found == find_view_depth_first_from(tree, self, view_name, data, 1)
    IN  [ret |-> found.ret, reqs |-> <<ApiGet(self)>> \o found.reqs]

\* find_view that compares the views the container holds and searches none
find_view_direct_only(tree, self, view_name) ==
    LET data == raw_views(tree, self)
        direct == {k \in 1..Len(data) : data[k].name = view_name}
    IN  [ret |-> IF direct # {}
                 THEN View_create(tree, clone(self, data[CHOOSE k \in direct :
                                              \A m \in direct : k <= m].url))
                 ELSE NoPlugin,
         reqs |-> <<ApiGet(self)>>]

\* NestedView.find_view
find_view(tree, self, view_name) ==
    LET data == raw_views(tree, self)
        direct == {k \in 1..Len(data) : data[k].name = view_name}
    IN  IF direct # {}
        THEN [ret |-> View_create(tree, clone(self, data[CHOOSE k \in direct :
                                              \A m \in direct : k <= m].url)),
              reqs |-> <<ApiGet(self)>>]
        ELSE LET found == find_view_nested(tree, self, view_name, data, 1)
             IN  [ret |-> found.ret, reqs |-> <<ApiGet(self)>> \o found.reqs]

\* has_view answered by find_view
has_view_searches(tree, self, view_name) ==
    [ret |-> find_view(tree, self, view_name).ret # NoPlugin,
     reqs |-> find_view(tree, self, view_name).reqs]

\* NestedView.has_view
has_view(tree, self, view_name) ==
    LET data == raw_views(tree, self)
    IN  [ret |-> \E k \in 1..Len(data) : data[k].name = view_name,
         reqs |-> <<ApiGet(self)>>]

RECURSIVE all_views(_, _)
RECURSIVE all_views_nested(_, _, _)
RECURSIVE all_views_container_first(_, _)

\* the loop of all_views, from the k-th view of self.views on
all_views_nested(tree, temp, k) ==
    IF k > Len(temp) THEN [ret |-> <<>>, reqs |-> <<>>]
    ELSE LET cur_view == temp[k]
             rest == all_views_nested(tree, temp, k + 1)
         IN  IF cur_view.type = NestedViewType
             THEN LET sub_views == all_views(tree, cur_view.controller)
                  IN  [ret |-> sub_views.ret \o rest.ret,
                       reqs |-> sub_views.reqs \o rest.reqs]
             ELSE rest

\* all_views that returns the views the container holds and searches none
all_views_direct_only(tree, self) == views_of(tree, self)

\* all_views that lists the views of a container before what they hold
all_views_container_first(tree, self) ==
    LET temp == views_of(tree, self)
        nested == all_views_nested(tree, temp.ret, 1)
    IN  [ret |-> temp.ret \o nested.ret, reqs |-> temp.reqs \o nested.reqs]

\* NestedView.all_views
all_views(tree, self) ==
    LET temp == views_of(tree, self)
        nested == all_views_nested(tree, temp.ret, 1)
    IN  [ret |-> nested.ret \o temp.ret, reqs |-> temp.reqs \o nested.reqs]

\* the operations on the root view; get_api_data() caches nothing while
\* ENABLE_CACHING is False
ViewOperation(op, arg, result) ==
    /\ ~caching
    /\ last' = Outcome(op, RootView.url, arg, result.reqs, result.ret, None,
                       NoFailures, FALSE)
    /\ UNCHANGED <<caching, Caches, server, registry, History, who, views, job_root>>

Views == ViewOperation("views", None, views_of(views, RootView))

FindView ==
    \E view_name \in ViewNames :
        ViewOperation("find_view", view_name, find_view(views, RootView, view_name))

HasView ==
    \E view_name \in ViewNames :
        ViewOperation("has_view", view_name, has_view(views, RootView, view_name))

AllViews == ViewOperation("all_views", None, all_views(views, RootView))

(***************************************************************************)
(* Nested views: create_view                                               *)
(***************************************************************************)
NestedViewCreationError == <<"NestedViewCreationError">>

\* the text the server answers for api/python of a view: the name and the url
\* of every view it holds
RECURSIVE ListingText(_)
ListingText(data) ==
    IF data = <<>> THEN <<>>
    ELSE <<"name">> \o Head(data).name \o <<"url">> \o Head(data).url \o <<";">>
             \o ListingText(Tail(data))

IndexOf(txt, token) ==
    CHOOSE k \in 1..Len(txt) : txt[k] = token /\ \A m \in 1..(k - 1) : txt[m] # token

\* eval(txt)['views']
RECURSIVE ViewsOfText(_)
ViewsOfText(txt) ==
    IF txt = <<>> THEN <<>>
    ELSE LET last_token == IndexOf(txt, ";")
             url_token == IndexOf(txt, "url")
         IN  <<[name |-> SubSeq(txt, 2, url_token - 1),
                url |-> SubSeq(txt, url_token + 1, last_token - 1)]>>
                 \o ViewsOfText(SubSeq(txt, last_token + 1, Len(txt)))

\* self._controller.get_api_data()['views'] with the text cache `cache` and
\* the views `tree` on the server
get_api_views(cache, tree, self, status) ==
    LET temp_url == ApiUrl(self, None)
        req == Request("GET", temp_url, self.cred, None, None, status)
        txt == ListingText(raw_views(tree, self))
    IN  IF temp_url \in DOMAIN cache
        THEN [reqs |-> <<>>, data |-> ViewsOfText(cache[temp_url]), raised |-> None,
              cache |-> cache]
        ELSE IF status # 200 /\ RaisesForStatus(status)
        THEN [reqs |-> <<req>>, data |-> <<>>, raised |-> HTTPError, cache |-> cache]
        ELSE [reqs |-> <<req>>, data |-> ViewsOfText(txt), raised |-> None,
              cache |-> IF caching THEN (temp_url :> txt) @@ cache ELSE cache]

\* the server adds a view to the views a view holds
AddView(tree, holder, view_name, view_type) ==
    ViewTree(Append(tree.parent, holder), Append(tree.name, view_name),
             Append(tree.type, view_type))

\* view_type.replace("__", "_")
Mode(view_type) ==
    [k \in 1..Len(view_type) |->
        IF view_type[k] = ".nested__view" THEN ".nested_view" ELSE view_type[k]]

FormHeaders == <<"Content-Type", "application/x-www-form-urlencoded">>

\* NestedView.create_view: the server answers the POST with post_status and
\* creates the view or not, and answers the GET of the listing with get_status
create_view(cache, tree, self, view_name, view_type, post_status, created, get_status) ==
    LET args == [data |-> <<"name">> \o view_name \o <<"mode">> \o Mode(view_type),
                 headers |-> FormHeaders]
        posted == post_result(self, <<"/", "createView">>, args, post_status)
        served == IF created
                  THEN AddView(tree, ViewAt(tree, self.url), view_name, view_type)
                  ELSE tree
    IN  IF posted.raised # None
        THEN [reqs |-> posted.reqs, ret |-> NoPlugin, raised |-> posted.raised,
              cache |-> cache, tree |-> served]
        ELSE LET listed == get_api_views(cache, served, self, get_status)
                 found == {k \in 1..Len(listed.data) : listed.data[k].name = view_name}
             IN  IF listed.raised # None
                 THEN [reqs |-> posted.reqs \o listed.reqs, ret |-> NoPlugin,
                       raised |-> listed.raised, cache |-> listed.cache, tree |-> served]
                 ELSE IF found # {}
                 THEN [reqs |-> posted.reqs \o listed.reqs,
                       ret |-> View_create(served,
                                   clone(self, listed.data[CHOOSE k \in found :
                                                   \A m \in found : k <= m].url)),
                       raised |-> None, cache |-> listed.cache, tree |-> served]
                 ELSE [reqs |-> posted.reqs \o listed.reqs, ret |-> NoPlugin,
                       raised |-> NestedViewCreationError, cache |-> listed.cache,
                       tree |-> served]

\* the views the root view holds that have a name
Held(tree, view_name) ==
    {i \in ViewsIn(tree) : tree.parent[i] = 0 /\ tree.name[i] = view_name}

\* the server creates a view only when it accepts the request, and accepts no
\* second view of a name in one view
Creates(tree, view_name, post_status, created) ==
    /\ created => Accepted(post_status) /\ Len(tree.parent) < MaxViews
    /\ Held(tree, view_name) # {} => ~Accepted(post_status)

\* NestedView.views on the root view, through the text cache
CachedViews ==
    \E status \in Statuses :
        LET listed == get_api_views(text_cache, views, RootView, status)
        IN  /\ text_cache' = listed.cache
            /\ last' = Outcome("views", RootView.url, None, listed.reqs,
                               [k \in 1..Len(listed.data) |->
                                   View_create(views, clone(RootView, listed.data[k].url))],
                               listed.raised, NoFailures, FALSE)
            /\ UNCHANGED <<caching, header_cache, configxml_cache, needs_flush, server,
                           registry, History, who, views, job_root>>

CreateView ==
    \E view_name \in ViewNames, view_type \in ViewTypes, post_status \in Statuses,
       created \in BOOLEAN, get_status \in Statuses :
        /\ Creates(views, view_name, post_status, created)
        /\ LET r == create_view(text_cache, views, RootView, view_name, view_type,
                                post_status, created, get_status)
           IN  /\ text_cache' = r.cache
               /\ views' = r.tree
               /\ last' = Outcome("create_view", RootView.url, view_name, r.reqs,
                                  r.ret, r.raised, NoFailures, FALSE)
        /\ UNCHANGED <<caching, header_cache, configxml_cache, needs_flush, server,
                       registry, History, who, job_root>>

(***************************************************************************)
(* Nested views: clone_subview and move_view                               *)
(***************************************************************************)
\* a view the server has deleted is held by no view
Deleted == 0 - 1

Exists(tree, i) == i \in ViewsIn(tree) /\ tree.parent[i] # Deleted

\* the access object of a view
ControllerOf(self, i) == clone(self, ViewUrl(i))

\* the configuration the server creates a view with
DefaultConfig(tree, i) == <<"name">> \o tree.name[i] \o <<"view", ToString(i)>>

\* the configuration of a view on the server
ConfigOnServer(srv, tree, i) ==
    LET url == ConfigUrl(ControllerOf(RootView, i))
    IN  IF url \in DOMAIN srv THEN srv[url] ELSE DefaultConfig(tree, i)

\* ViewXML(xml).rename(new_view_name), then XML
rename(xml, new_view_name) ==
    <<"name">> \o new_view_name \o SubSeq(xml, IndexOf(xml, "view"), Len(xml))

\* the status the server answers the step-th request of an operation with,
\* when it fails the request fails_at
StatusAt(step, fails_at) == IF step = fails_at THEN 500 ELSE 200

\* the state an operation of several calls has reached, and what it returns
Reached(reqs, ret, raised, st) ==
    [reqs |-> reqs, ret |-> ret, raised |-> raised, text |-> st.text,
     config |-> st.config, dirty |-> st.dirty, written |-> st.written,
     server |-> st.server, tree |-> st.tree]

\* existing_view.config_xml (DataRequester.config_xml getter on its controller)
view_config_xml(st, controller, i, status) ==
    LET url == ConfigUrl(controller)
        req == Request("GET", url, controller.cred, None, None, status)
    IN  IF controller.url \in DOMAIN st.config
        THEN Reached(<<>>, st.config[controller.url], None, st)
        ELSE IF url \in DOMAIN st.text
        THEN Reached(<<>>, st.text[url], None, st)
        ELSE IF status # 200 /\ RaisesForStatus(status)
        THEN Reached(<<req>>, None, HTTPError, st)
        ELSE LET txt == ConfigOnServer(st.server, st.tree, i)
             IN  Reached(<<req>>, txt, None,
                         [st EXCEPT !.text = IF caching THEN (url :> txt) @@ @ ELSE @])

\* retval.config_xml = new_xml (DataRequester.config_xml setter on its controller)
view_config_xml_setter(st, controller, new_xml, status) ==
    IF caching
    THEN Reached(<<>>, None, None,
                 [st EXCEPT !.config = (controller.url :> new_xml) @@ @,
                            !.dirty = TRUE,
                            !.written = (controller.url :> new_xml) @@ @])
    ELSE LET args == [data |-> new_xml, headers |-> XmlHeaders]
             posted == post_result(controller, <<"/", "config.xml">>, args, status)
         IN  Reached(posted.reqs, None, posted.raised,
                     [st EXCEPT !.server = ServerAfterAll(@, posted.reqs)])

\* existing_view.delete(): the server deletes the view when it accepts the request
view_delete(st, controller, i, status) ==
    LET posted == post_result(controller, <<"/", "doDelete">>, NoArgs, status)
    IN  Reached(posted.reqs, None, posted.raised,
                [st EXCEPT !.tree = IF posted.raised = None
                                    THEN [@ EXCEPT !.parent[i] = Deleted]
                                    ELSE @])

\* the value a local variable of an operation holds: computed once, where the
\* assignment is
Local(values) == CHOOSE value \in values : TRUE

\* NestedView.clone_subview
clone_subview(st, self, existing_view, new_view_name, created, fails_at) ==
    Local({
        IF made.raised # None
        THEN Reached(made.reqs, NoPlugin, made.raised,
                     [st EXCEPT !.text = made.cache, !.tree = made.tree])
        ELSE Local({
            IF read.raised # None
            THEN Reached(made.reqs \o read.reqs, NoPlugin, read.raised, read)
            ELSE Local({
                Reached(made.reqs \o read.reqs \o wrote.reqs,
                        IF wrote.raised = None THEN made.ret ELSE NoPlugin,
                        wrote.raised, wrote)
                : wrote \in {view_config_xml_setter(read, made.ret.controller,
                                 rename(read.ret, new_view_name),
                                 StatusAt(4, fails_at))} })
            : read \in {view_config_xml(
                            [st EXCEPT !.text = made.cache, !.tree = made.tree],
                            ControllerOf(self, existing_view), existing_view,
                            StatusAt(3, fails_at))} })
        : made \in {create_view(st.text, st.tree, self, new_view_name,
                                st.tree.type[existing_view], StatusAt(1, fails_at),
                                created, StatusAt(2, fails_at))} })

\* move_view that deletes the view before it clones it
move_view_deletes_first(st, self, existing_view, created, fails_at) ==
    Local({
        IF gone.raised # None
        THEN Reached(gone.reqs, NoPlugin, gone.raised, gone)
        ELSE Local({
            Reached(gone.reqs \o new_view.reqs, new_view.ret, new_view.raised,
                    new_view)
            : new_view \in {clone_subview(gone, self, existing_view,
                                st.tree.name[existing_view], created, fails_at)} })
        : gone \in {view_delete(st, ControllerOf(self, existing_view),
                                existing_view, StatusAt(5, fails_at))} })

\* NestedView.move_view
move_view(st, self, existing_view, created, fails_at) ==
    Local({
        IF new_view.raised # None
        THEN new_view
        ELSE Local({
            Reached(new_view.reqs \o gone.reqs,
                    IF gone.raised = None THEN new_view.ret ELSE NoPlugin,
                    gone.raised, gone)
            : gone \in {view_delete(new_view, ControllerOf(self, existing_view),
                                    existing_view, StatusAt(5, fails_at))} })
        : new_view \in {clone_subview(st, self, existing_view,
                            st.tree.name[existing_view], created, fails_at)} })

\* the steps of move_view the server may fail: none, the POST to createView,
\* the GET of the listing, the GET and the POST of config.xml, the POST to doDelete
Failures == 0..5

MoveView ==
    \E existing_view \in ViewsIn(views), created \in BOOLEAN, fails_at \in Failures :
        /\ Exists(views, existing_view)
        /\ Creates(views, views.name[existing_view], StatusAt(1, fails_at), created)
        /\ \E r \in {move_view([text |-> text_cache, config |-> configxml_cache,
                                dirty |-> needs_flush, written |-> written,
                                server |-> server, tree |-> views],
                               RootView, existing_view, created, fails_at)} :
               /\ text_cache' = r.text
               /\ configxml_cache' = r.config
               /\ needs_flush' = r.dirty
               /\ written' = r.written
               /\ server' = r.server
               /\ views' = r.tree
               /\ last' = Outcome("move_view", RootView.url, existing_view, r.reqs,
                                  r.ret, r.raised, NoFailures, FALSE)
        /\ UNCHANGED <<caching, header_cache, registry, stale, who, job_root>>

(***************************************************************************)
(* JobXML: the document and the custom workspace                           *)
(***************************************************************************)
\* the elements between the start tag and the end tag of the root element
RECURSIVE ParseChildren(_)
ParseChildren(items) ==
    IF items = <<>> THEN <<>>
    ELSE LET item == Head(items)
         IN  IF item.kind = "empty"
             THEN <<NewElement(item.tag, item.class, None)>> \o ParseChildren(Tail(items))
             ELSE IF items[2].kind = "text"
             THEN <<NewElement(item.tag, item.class, items[2].text)>>
                      \o ParseChildren(SubSeq(items, 4, Len(items)))
             ELSE <<NewElement(item.tag, item.class, None)>>
                      \o ParseChildren(SubSeq(items, 3, Len(items)))

\* ElementTree.fromstring: the declaration and the comments are not part of
\* the tree, an element without character data has the text None
fromstring(xml) ==
    LET IsMarkup(item) == item.kind \notin {"declaration", "comment"}
        items == SelectSeq(xml, IsMarkup)
    IN  [tag |-> items[1].tag,
         children |-> ParseChildren(SubSeq(items, 2, Len(items) - 1))]

RECURSIVE WriteChildren(_)
WriteChildren(children) ==
    IF children = <<>> THEN <<>>
    ELSE LET elem == Head(children)
         IN  (IF elem.text \in {None, <<>>}
              THEN <<EmptyTag(elem.tag, elem.class)>>
              ELSE <<StartTag(elem.tag, elem.class), CharData(elem.text),
                     EndTag(elem.tag)>>) \o WriteChildren(Tail(children))

RECURSIVE WriteChildrenWithoutAttributes(_)
WriteChildrenWithoutAttributes(children) ==
    IF children = <<>> THEN <<>>
    ELSE LET elem == Head(children)
         IN  (IF elem.text \in {None, <<>>}
              THEN <<EmptyTag(elem.tag, None)>>
              ELSE <<StartTag(elem.tag, None), CharData(elem.text),
                     EndTag(elem.tag)>>)
                 \o WriteChildrenWithoutAttributes(Tail(children))

\* tostring that writes the tags and the text only
tostring_without_attributes(element) ==
    <<Declaration, StartTag(element.tag, None)>>
        \o WriteChildrenWithoutAttributes(element.children)
        \o <<EndTag(element.tag)>>

\* ElementTree.tostring(self._root, "UTF-8"): the declaration, then the tree;
\* an element without text is written as an empty-element tag
tostring(element) ==
    <<Declaration, StartTag(element.tag, None)>> \o WriteChildren(element.children)
        \o <<EndTag(element.tag)>>

\* self._root.find(tag): the position of the first child with the tag, 0 for None
find_child(element, tag) ==
    LET found == {k \in 1..Len(element.children) : element.children[k].tag = tag}
    IN  IF found = {} THEN 0 ELSE CHOOSE k \in found : \A m \in found : k <= m

\* the frame of the operations of a JobXML object
JobOperation(op, arg, ret, raised, new_root) ==
    /\ last' = Outcome(op, job_root, arg, <<>>, ret, raised, NoFailures, FALSE)
    /\ job_root' = new_root
    /\ UNCHANGED <<caching, Caches, server, registry, History, who, views>>

\* JobXML.__init__
JobXML(xml) ==
    LET parsed == fromstring(xml)
    IN  IF parsed.tag = <<"project">>
        THEN JobOperation("JobXML", xml, None, None, parsed)
        ELSE JobOperation("JobXML", xml, None, AssertionError, job_root)

\* JobXML.XML
XML == JobOperation("XML", None, tostring(job_root), None, job_root)

\* JobXML.custom_workspace
custom_workspace_of(element) ==
    LET node == find_child(element, <<"customWorkspace">>)
    IN  IF node = 0 THEN <<>> ELSE element.children[node].text

custom_workspace == JobOperation("custom_workspace", None, custom_workspace_of(job_root), None, job_root)

\* the custom_workspace setter that always adds an element
custom_workspace_setter_appends(element, path) ==
    [element EXCEPT !.children =
        Append(@, NewElement(<<"customWorkspace">>, None, path))]

\* JobXML.custom_workspace (setter): the tree after the assignment
custom_workspace_setter(element, path) ==
    LET node == find_child(element, <<"customWorkspace">>)
    IN  IF node = 0
        THEN [element EXCEPT !.children =
                 Append(@, NewElement(<<"customWorkspace">>, None, path))]
        ELSE [element EXCEPT !.children[node].text = path]

\* disable_custom_workspace that empties the element
disable_custom_workspace_keeps_element(element) ==
    LET node == find_child(element, <<"customWorkspace">>)
    IN  IF node # 0
        THEN [element EXCEPT !.children[node].text = None]
        ELSE element

\* JobXML.disable_custom_workspace: the tree after the call
disable_custom_workspace(element) ==
    LET node == find_child(element, <<"customWorkspace">>)
    IN  IF node # 0
        THEN [element EXCEPT !.children =
                 SubSeq(@, 1, node - 1) \o SubSeq(@, node + 1, Len(@))]
        ELSE element

\* the operations, on the JobXML object constructed last
NewJobXML == \E xml \in ProjectXmls \cup OtherXmls : JobXML(xml)

GetXML == job_root # NoRoot /\ XML

GetCustomWorkspace == job_root # NoRoot /\ custom_workspace

SetCustomWorkspace ==
    /\ job_root # NoRoot
    /\ \E path \in WorkspacePaths :
          JobOperation("custom_workspace.setter", path, None, None,
                       custom_workspace_setter(job_root, path))

DisableCustomWorkspace ==
    /\ job_root # NoRoot
    /\ JobOperation("disable_custom_workspace", None, None, None,
                    disable_custom_workspace(job_root))

(***************************************************************************)
(* Specifications                                                          *)
(***************************************************************************)
CacheSize ==
    Cardinality(DOMAIN text_cache) + Cardinality(DOMAIN header_cache)
        + Cardinality(DOMAIN configxml_cache)

GetText ==
    /\ \E o \in Objects, p \in Paths, st \in Statuses : get_text(o, p, st)
    /\ CacheSize' <= MaxCached
    /\ UNCHANGED <<who, views, job_root>>
GetApiData ==
    /\ \E o \in Objects, q \in QueryParams, st \in Statuses : get_api_data(o, q, st)
    /\ CacheSize' <= MaxCached
    /\ UNCHANGED <<who, views, job_root>>
GetHeaders ==
    /\ \E o \in Objects, p \in Paths, st \in Statuses : get_headers(o, p, st)
    /\ CacheSize' <= MaxCached
    /\ UNCHANGED <<who, views, job_root>>
GetConfig ==
    /\ \E o \in Objects, st \in Statuses : config_xml(o, st)
    /\ CacheSize' <= MaxCached
    /\ UNCHANGED <<who, views, job_root>>
SetConfig ==
    /\ \E o \in Objects, x \in Docs, st \in Statuses : config_xml_setter(o, x, st)
    /\ CacheSize' <= MaxCached
    /\ UNCHANGED <<who, views, job_root>>
Post ==
    /\ \E o \in Objects, p \in PostPaths, a \in PostArgs, st \in Statuses : post(o, p, a, st)
    /\ UNCHANGED <<who, views, job_root>>
Flush ==
    /\ \E o \in Objects, ord \in Orders(DOMAIN configxml_cache),
          sts \in [DOMAIN configxml_cache -> Statuses] : flush(o, ord, sts)
    /\ UNCHANGED <<who, views, job_root>>
IsDirty ==
    /\ \E o \in Objects : is_dirty(o)
    /\ UNCHANGED <<who, views, job_root>>
\* clear(), the history following one of the entries it drops
Clear ==
    /\ \E e \in Dropped : clear(e)
    /\ UNCHANGED <<who, views, job_root>>
\* clear(), the history following nothing
ClearUntracked ==
    /\ clear(NoEntry)
    /\ UNCHANGED <<who, views, job_root>>
Resolve ==
    /\ \E c \in ClassNames : resolve(c)
    /\ UNCHANGED <<who, views, job_root>>
ClearRegistry ==
    /\ clear_registry
    /\ UNCHANGED <<who, views, job_root>>

GetPlugins ==
    /\ get_plugins
    /\ UNCHANGED <<who, views, job_root>>
TypeIdentifier ==
    /\ \E node \in Elements : PluginXML(node)
    /\ UNCHANGED <<who, views, job_root>>

CreateXmlPlugin ==
    /\ \E node \in Elements : create(node)
    /\ UNCHANGED <<who, views, job_root>>
Scm ==
    /\ \E root \in ProjectDocuments : scm(root)
    /\ UNCHANGED <<who, views, job_root>>
Properties ==
    /\ \E root \in ProjectDocuments : properties(root)
    /\ UNCHANGED <<who, views, job_root>>
Publishers ==
    /\ \E root \in ProjectDocuments : publishers(root)
    /\ UNCHANGED <<who, views, job_root>>
Builders ==
    /\ \E root \in ProjectDocuments : builders(root)
    /\ UNCHANGED <<who, views, job_root>>

\* the operations with the history of the access objects they are called on
Acted(o) == [who EXCEPT !.actor = o]
SetConfigBy ==
    \E o \in Objects, x \in Docs, st \in Statuses :
        /\ config_xml_setter(o, x, st)
        /\ CacheSize' <= MaxCached
        /\ who' = IF caching THEN [writer |-> o, actor |-> o] ELSE Acted(o)
        /\ UNCHANGED <<views, job_root>>
GetConfigBy ==
    \E o \in Objects, st \in Statuses :
        /\ config_xml(o, st)
        /\ CacheSize' <= MaxCached
        /\ who' = Acted(o)
        /\ UNCHANGED <<views, job_root>>
IsDirtyBy == \E o \in Objects : is_dirty(o) /\ who' = Acted(o) /\ UNCHANGED <<views, job_root>>
FlushBy ==
    \E o \in Objects, ord \in Orders(DOMAIN configxml_cache),
       sts \in [DOMAIN configxml_cache -> Statuses] :
        /\ flush(o, ord, sts)
        /\ who' = Acted(o)
        /\ UNCHANGED <<views, job_root>>
ClearShared ==
    /\ clear(NoEntry)
    /\ who' = Nobody
    /\ UNCHANGED <<views, job_root>>

\* every operation
Next ==
    \/ GetText
    \/ GetApiData
    \/ GetHeaders
    \/ GetConfig
    \/ SetConfig
    \/ Post
    \/ Flush
    \/ IsDirty
    \/ Clear
    \/ Resolve
    \/ ClearRegistry

Spec == Init /\ [][Next]_vars

\* the write-back layer: configuration reads and writes, flush, clear
NextConfig ==
    \/ GetConfig
    \/ GetHeaders
    \/ SetConfig
    \/ Flush
    \/ IsDirty
    \/ ClearUntracked

SpecConfig == Init /\ [][NextConfig]_vars

\* the read caches
NextRead ==
    \/ GetText
    \/ GetApiData
    \/ GetHeaders
    \/ GetConfig
    \/ ClearUntracked

SpecRead == Init /\ [][NextRead]_vars

\* reads and cached writes around clear(), with the history of what it dropped
NextClear ==
    \/ GetText
    \/ GetHeaders
    \/ GetConfig
    \/ SetConfig
    \/ Clear

SpecClear == Init /\ [][NextClear]_vars

\* post beside the operations that post on their own
NextPost ==
    \/ Post
    \/ SetConfig
    \/ Flush
    \/ ClearUntracked

SpecPost == Init /\ [][NextPost]_vars

\* every operation, with caching disabled (ENABLE_CACHING = False)
InitBypass == Init /\ caching = FALSE

SpecBypass == InitBypass /\ [][Next]_vars

\* the write-back layer, following which access object each call is made on
NextShared ==
    \/ SetConfigBy
    \/ GetConfigBy
    \/ IsDirtyBy
    \/ FlushBy
    \/ ClearShared

SpecShared == Init /\ [][NextShared]_vars

\* plugin resolution in a process with any of the implementation sets
InitPlugins ==
    /\ caching = FALSE
    /\ text_cache = <<>>
    /\ header_cache = <<>>
    /\ configxml_cache = <<>>
    /\ needs_flush = FALSE
    /\ server = <<>>
    /\ registry \in {Unpopulated(impls) : impls \in ImplementationSets}
    /\ last = Outcome("init", None, None, <<>>, None, None, NoFailures, FALSE)
    /\ written = <<>>
    /\ stale = NoEntry
    /\ who = Nobody
    /\ views = NoViews
    /\ job_root = NoRoot

NextPlugins ==
    \/ TypeIdentifier
    \/ GetPlugins
    \/ Resolve
    \/ CreateXmlPlugin
    \/ ClearRegistry

SpecPlugins == InitPlugins /\ [][NextPlugins]_vars

\* the job configuration document and plugin resolution, in a process with
\* the supported implementation set
NextJobXml ==
    \/ Scm
    \/ Properties
    \/ Publishers
    \/ Builders
    \/ CreateXmlPlugin
    \/ ClearRegistry

SpecJobXml == Init /\ [][NextJobXml]_vars

\* the plugin registry beside the resource cache
NextRegistry ==
    \/ Resolve
    \/ ClearRegistry
    \/ GetConfig
    \/ SetConfig
    \/ ClearUntracked

SpecRegistry == Init /\ [][NextRegistry]_vars

\* the operations of a nested view, on every tree of views
InitViews ==
    /\ caching = FALSE
    /\ text_cache = <<>>
    /\ header_cache = <<>>
    /\ configxml_cache = <<>>
    /\ needs_flush = FALSE
    /\ server = <<>>
    /\ registry = Unpopulated(Implementations)
    /\ last = Outcome("init", None, None, <<>>, None, None, NoFailures, FALSE)
    /\ written = <<>>
    /\ stale = NoEntry
    /\ who = Nobody
    /\ views \in Trees
    /\ job_root = NoRoot

NextViews ==
    \/ Views
    \/ FindView
    \/ HasView
    \/ AllViews

SpecViews == InitViews /\ [][NextViews]_vars

\* a JobXML object: its document and its custom workspace
NextWorkspace ==
    \/ NewJobXML
    \/ GetXML
    \/ GetCustomWorkspace
    \/ SetCustomWorkspace
    \/ DisableCustomWorkspace

SpecWorkspace == InitBypass /\ [][NextWorkspace]_vars

\* a nested view whose views are created and moved
InitNested ==
    /\ caching \in BOOLEAN
    /\ text_cache = <<>>
    /\ header_cache = <<>>
    /\ configxml_cache = <<>>
    /\ needs_flush = FALSE
    /\ server = <<>>
    /\ registry = Unpopulated(Implementations)
    /\ last = Outcome("init", None, None, <<>>, None, None, NoFailures, FALSE)
    /\ written = <<>>
    /\ stale = NoEntry
    /\ who = Nobody
    /\ views \in {t \in Trees : Len(t.parent) <= 2}
    /\ job_root = NoRoot

NextNested ==
    \/ CachedViews
    \/ CreateView
    \/ MoveView
    \/ ClearUntracked

SpecNested == InitNested /\ [][NextNested]_vars

(***************************************************************************)
(* Properties                                                              *)
(***************************************************************************)
IssuedNothing(outcome) == outcome.reqs = <<>>

IssuedOneGet(outcome, url) ==
    /\ Len(outcome.reqs) = 1
    /\ outcome.reqs[1].method = "GET"
    /\ outcome.reqs[1].url = url

\* C1: with caching enabled, a get_config that directly follows a
\* set_config(L, X), on any access object whose locator is L, returns X, and
\* neither of the two calls issues a request
C1_CacheCoherence ==
    [][(/\ caching
        /\ last.op = "config_xml.setter"
        /\ last'.op = "config_xml"
        /\ last'.key = last.key)
       => /\ last'.ret = last.arg
          /\ IssuedNothing(last')
          /\ IssuedNothing(last)
          /\ server' = server]_vars

\* a get_config answered from the write-back cache
C1_Witness ==
    /\ caching
    /\ last.op = "config_xml"
    /\ last.key \in DOMAIN configxml_cache
    /\ last.ret = configxml_cache[last.key]
    /\ last.ret \in Docs
    /\ IssuedNothing(last)

\* C2: with caching disabled, every set_config(L, X) issues exactly one POST
\* of X to L's config.xml and every get_config(L) issues a GET of L's
\* config.xml, whatever was called before
C2_CacheBypass ==
    ~caching =>
        /\ last.op = "config_xml.setter" =>
              /\ Len(last.reqs) = 1
              /\ last.reqs[1].method = "POST"
              /\ last.reqs[1].url = last.key \o <<"config.xml">>
              /\ last.reqs[1].body = last.arg
        /\ last.op = "config_xml" =>
              IssuedOneGet(last, last.key \o <<"config.xml">>)

\* a get_config that went to the server after the server accepted a write
C2_Witness ==
    /\ ~caching
    /\ last.op = "config_xml"
    /\ last.ret \in Docs
    /\ IssuedOneGet(last, last.key \o <<"config.xml">>)

StartsWith(s, prefix) ==
    Len(s) >= Len(prefix) /\ SubSeq(s, 1, Len(prefix)) = prefix

C4_CleanMeansCommitted ==
    ~needs_flush =>
        \A k \in DOMAIN configxml_cache :
            /\ FlushUrl(k) \in DOMAIN server
            /\ server[FlushUrl(k)] = configxml_cache[k]

\* C5: a flush() that starts clean issues no request and changes nothing;
\* every flush() leaves the flag clean and only set_config makes it dirty, so
\* a second flush() with no set_config in between is such a flush
C5_FlushIdempotence ==
    [][/\ last'.op = "flush"
             => /\ ~needs_flush'
                /\ (~needs_flush \/ last.op = "flush")
                      => /\ IssuedNothing(last')
                         /\ last'.raised = None
                         /\ UNCHANGED <<Caches, server>>
       /\ (~needs_flush /\ needs_flush') => last'.op = "config_xml.setter"]_vars

\* a flush that found the flag clean while the write-back cache has entries
C5_Witness ==
    /\ last.op = "flush"
    /\ IssuedNothing(last)
    /\ configxml_cache # <<>>
    /\ ~needs_flush

\* C6: clear() leaves the three caches empty and the flag false and issues
\* no request; a flush() POSTs only documents cached by set_config since the
\* last clear(), so a write discarded by clear() is never POSTed
C6_ClearDiscards ==
    [][/\ last'.op = "clear"
             => /\ text_cache' = <<>>
                /\ header_cache' = <<>>
                /\ configxml_cache' = <<>>
                /\ ~needs_flush'
                /\ IssuedNothing(last')
                /\ server' = server
       /\ last'.op = "flush"
             => /\ Len(last'.reqs) <= Cardinality(DOMAIN written)
                /\ \A i \in 1..Len(last'.reqs) :
                      \E k \in DOMAIN written :
                         /\ StartsWith(last'.reqs[i].url, k)
                         /\ last'.reqs[i].body = written[k]]_vars

\* a flush that posts one entry although the server accepted a flushed entry
\* of another locator before: a clear() dropped that entry in between
C6_Witness ==
    /\ last.op = "flush"
    /\ Len(last.reqs) = 1
    /\ \E k \in DOMAIN written : last.reqs[1].body = written[k]
    /\ \E k \in DOMAIN server : k # last.reqs[1].url

\* the step is the first get_text, get_headers or get_config, since the
\* clear(), of the entry that the clear() dropped and the history tracks
FirstReadOfDropped ==
    \/ stale.kind = "text" /\ last'.op = "get_text" /\ last'.key = stale.key
    \/ stale.kind = "header" /\ last'.op = "get_headers" /\ last'.key = stale.key
    \/ stale.kind = "config" /\ last'.op = "config_xml" /\ last'.key = stale.key

IssuedFreshGet(outcome) ==
    Len(outcome.reqs) = 1 /\ outcome.reqs[1].method = "GET"

\* C7 as stated: after clear(), the first get_text, get_headers or get_config
\* for a locator that was cached before the clear() issues a fresh GET
C7_FirstReadFetches ==
    [][FirstReadOfDropped => IssuedFreshGet(last')]_vars

\* C7 (amended): after clear(), the first get_text, get_headers or get_config
\* for a locator that was cached before the clear() issues a fresh GET,
\* unless another operation has cached that locator again since the clear()
\* (set_config for it, or a read of the same config.xml address through the
\* other one of get_text and get_config)
C7_FirstReadFetchesUnlessRecached ==
    [][(FirstReadOfDropped /\ ~stale.recached) => IssuedFreshGet(last')]_vars

\* the tracked entry, dropped by a clear(), had its first read: a get_config
\* that went to the server although caching is enabled
C7_Witness ==
    /\ caching
    /\ stale.kind = "done"
    /\ last.op = "config_xml"
    /\ last.key = stale.key
    /\ IssuedFreshGet(last)
    /\ last.raised = None

\* C8 as stated: the plugin resolution that follows a clear() of the resource
\* cache re-scans the implementations
C8_ClearRescans ==
    [][(last.op = "clear" /\ last'.op = "resolve") => last'.scanned]_vars

\* C8 (amended): the plugin resolution that follows clear_registry() re-scans
\* the implementations; clear() of the resource cache leaves the registry as
\* it is, so the resolution that follows it re-scans only if the registry
\* was not populated
C8_OnlyClearRegistryRescans ==
    [][/\ (last.op = "clear_registry" /\ last'.op = "resolve") => last'.scanned
       /\ last'.op = "clear" => registry' = registry
       /\ (last.op = "clear" /\ last'.op = "resolve")
             => (last'.scanned <=> ~registry.populated)]_vars

\* a clear() of the resource cache while the registry is populated
C8_Witness ==
    /\ last.op = "clear"
    /\ registry.populated

\* C9: post raises an HTTP error for every answer whose status is not 200
\* and returns normally only for status 200
C9_PostRaisesUnlessOk ==
    last.op = "post" =>
        /\ Len(last.reqs) = 1
        /\ (last.raised = HTTPError) <=> (last.reqs[1].status # 200)

\* C10: get_text returns the cached text without a request when the locator
\* has a text-cache entry; otherwise it issues exactly one GET and, unless
\* that raises, returns the fetched text and stores it exactly when caching
\* is enabled; the text cache has entries only when caching is enabled
C10_GetText ==
    [][/\ last'.op = "get_text" =>
             LET url == last'.key
             IN  IF url \in DOMAIN text_cache
                 THEN /\ IssuedNothing(last')
                      /\ last'.raised = None
                      /\ last'.ret = text_cache[url]
                      /\ text_cache' = text_cache
                 ELSE /\ IssuedOneGet(last', url)
                      /\ IF last'.raised = None
                         THEN /\ last'.ret = TextOf(url)
                              /\ (url \in DOMAIN text_cache') <=> caching
                              /\ caching => text_cache'[url] = last'.ret
                              /\ DOMAIN text_cache' \subseteq DOMAIN text_cache \cup {url}
                              /\ \A k \in DOMAIN text_cache : text_cache'[k] = text_cache[k]
                         ELSE text_cache' = text_cache
       /\ ~caching => text_cache = <<>> /\ text_cache' = <<>>]_vars

\* a get_text answered from the text cache
C10_Witness ==
    /\ caching
    /\ last.op = "get_text"
    /\ IssuedNothing(last)
    /\ last.key \in DOMAIN text_cache
    /\ last.ret = text_cache[last.key]

\* the requests of a flush that post the write-back entry of this locator
PostsFor(outcome, cache_item) ==
    {i \in 1..Len(outcome.reqs) :
        /\ outcome.reqs[i].method = "POST"
        /\ outcome.reqs[i].url = FlushUrl(cache_item)}

\* C11: with caching enabled, set_config(L, X) stores X in the write-back
\* cache, sets the dirty flag and issues no request; the flush() that follows
\* a sequence of writes issues exactly one POST for every locator written,
\* and its body is the last document written for that locator
C11_LastWriteWins ==
    [][/\ (caching /\ last'.op = "config_xml.setter")
             => /\ last'.key \in DOMAIN configxml_cache'
                /\ configxml_cache'[last'.key] = last'.arg
                /\ needs_flush'
                /\ IssuedNothing(last')
                /\ server' = server
       /\ (caching /\ needs_flush /\ last'.op = "flush")
             => \A k \in DOMAIN written :
                   /\ Cardinality(PostsFor(last', k)) = 1
                   /\ \A i \in PostsFor(last', k) : last'.reqs[i].body = written[k]]_vars

\* a flush whose one POST carries the last document written for a locator
\* while the server holds another document that an earlier flush posted for it
C11_Witness ==
    /\ caching
    /\ last.op = "flush"
    /\ Len(last.reqs) = 1
    /\ \E k \in DOMAIN written :
          /\ PostsFor(last, k) = {1}
          /\ last.reqs[1].body = written[k]
          /\ FlushUrl(k) \in DOMAIN server
          /\ server[FlushUrl(k)] # written[k]

\* C12: the caches and the dirty flag are shared by all access objects: with
\* caching enabled, get_config on any object returns the document last
\* written for its locator through any object; is_dirty returns the one flag
\* on every object; a flush() on any object that starts dirty POSTs every
\* entry written since the last clear(), through whichever object; after
\* clear() the caches are empty and no object's get_config is answered from them
C12_SharedState ==
    [][/\ (caching /\ last'.op = "config_xml" /\ last'.key \in DOMAIN written)
             => /\ last'.ret = written[last'.key]
                /\ IssuedNothing(last')
       /\ last'.op = "is_dirty"
             => /\ last'.ret = (IF needs_flush THEN <<"True">> ELSE <<"False">>)
                /\ last.op = "is_dirty" => last'.ret = last.ret
       /\ (needs_flush /\ last'.op = "flush")
             => \A k \in DOMAIN written :
                   \E i \in PostsFor(last', k) : last'.reqs[i].body = written[k]
       /\ last'.op = "clear"
             => text_cache' = <<>> /\ header_cache' = <<>> /\ configxml_cache' = <<>>
       /\ (last.op = "clear" /\ last'.op = "config_xml")
             => ~IssuedNothing(last')]_vars

\* a get_config answered with the document that another access object of the
\* same locator (other credentials) wrote
C12_Witness ==
    /\ caching
    /\ last.op = "config_xml"
    /\ last.key \in DOMAIN written
    /\ who.actor.url = who.writer.url
    /\ who.actor.cred # who.writer.cred
    /\ last.ret = written[last.key]
    /\ IssuedNothing(last)

\* C13: for an element carrying a plugin attribute of the form name@version,
\* module_name is the text before the '@' and version is the text after it
C13_ModuleNameAndVersion ==
    (last.op = "PluginXML" /\ last.arg.plugin # None) =>
        /\ last.arg.plugin = last.ret.module_name \o <<"@">> \o last.ret.version
        /\ \A i \in 1..Len(last.ret.module_name) : last.ret.module_name[i] # "@"

\* the element <test plugin="nested-view@123"/> of the unit tests
C13_Witness ==
    /\ last.op = "PluginXML"
    /\ last.arg.tag = <<"test">>
    /\ last.arg.plugin = <<"nested-view", "@", "123">>
    /\ last.ret.module_name = <<"nested-view">>
    /\ last.ret.version = <<"123">>

\* C14 as stated: for every element, class_name is the value of the class
\* attribute when the element has one and the tag name otherwise, without
\* an error, and it is never empty
C14_ClassNameTotal ==
    last.op = "PluginXML" =>
        /\ last.raised = None
        /\ last.ret.class_name =
              (IF last.arg.class # None THEN last.arg.class ELSE last.arg.tag)
        /\ last.ret.class_name # None
        /\ last.ret.class_name # <<>>

\* C14 (amended): for every element, class_name is the value of the class
\* attribute when the element has one and the tag name otherwise, without
\* an error; it is empty only for an element whose class attribute is
\* present and empty
C14_ClassNameTotalUnlessEmptyAttribute ==
    last.op = "PluginXML" =>
        /\ last.raised = None
        /\ last.ret.class_name =
              (IF last.arg.class # None THEN last.arg.class ELSE last.arg.tag)
        /\ last.ret.class_name # None
        /\ last.ret.class_name = <<>> => last.arg.class = <<>>

\* an element without class attribute, identified by its tag name
C14_Witness ==
    /\ last.op = "PluginXML"
    /\ last.arg.class = None
    /\ last.ret.class_name = last.arg.tag
    /\ last.ret.class_name # <<>>

\* C15: for an element with both a plugin="name@version" attribute and a
\* class attribute, resolution goes by the class attribute value, not by the
\* tag name and not by the module name: with a supported class it gives the
\* handler whose declared type is that class (so JobXML.scm on an scm element
\* of class hudson.scm.SubversionSCM gives the Subversion handler), with any
\* other class it gives no handler
C15_ClassAttributeResolves ==
    /\ (/\ last.op = "create_xml_plugin"
        /\ last.arg.plugin # None
        /\ last.arg.class # None)
          => /\ last.raised = None
             /\ last.arg.class \in SupportedTypes => last.ret.type = last.arg.class
             /\ last.arg.class \notin SupportedTypes => last.ret = NoPlugin
    /\ (/\ last.op = "scm"
        /\ last.arg.scm.plugin # None
        /\ last.arg.scm.class # None)
          => /\ last.arg.scm.class \in SupportedTypes
                   => /\ last.raised = None
                      /\ last.ret.type = last.arg.scm.class
             /\ last.arg.scm.class \notin SupportedTypes
                   => last.raised = PluginNotSupportedError(last.arg.scm.class)

\* JobXML.scm on <scm class="hudson.scm.SubversionSCM" plugin="Subversion@1.53">
C15_Witness ==
    /\ last.op = "scm"
    /\ last.arg.scm.class = SubversionType
    /\ last.arg.scm.plugin = <<"Subversion", "@", "1.53">>
    /\ last.raised = None
    /\ last.ret.type = SubversionType
    /\ last.ret.name = <<"Subversion">>

\* the requests that read the registry
RegistryRequests == {"resolve", "get_plugins", "create_xml_plugin"}

TypesOf(impls) == {impls[i].type : i \in 1..Len(impls)}

\* C16: the populated registry holds exactly one entry for each declared
\* type of the supported implementation set: every supported type appears,
\* none appears twice, and no entry has a type outside the supported set;
\* get_plugins() returns these entries
C16_OneEntryPerType ==
    /\ registry.populated =>
          /\ \A t \in TypesOf(registry.impls) :
                Cardinality({i \in 1..Len(registry.index) : registry.index[i].type = t}) = 1
          /\ TypesOf(registry.index) = TypesOf(registry.impls)
          /\ TypesOf(registry.impls) = SupportedTypes => TypesOf(registry.index) = SupportedTypes
    /\ (last.op = "get_plugins" /\ last.raised = None) =>
          /\ registry.populated
          /\ last.ret = registry.index

\* get_plugins() returned the three supported implementations
C16_Witness ==
    /\ last.op = "get_plugins"
    /\ last.raised = None
    /\ registry.populated
    /\ Len(last.ret) = Cardinality(SupportedTypes)
    /\ TypesOf(last.ret) = SupportedTypes

\* C17: the registry is populated at most once between clears: a request
\* scans exactly when the registry is not populated, a populated registry
\* changes only by clear_registry(), repeated requests give the identical
\* resolution (every entry of one get_plugins() is in the next), and the
\* request that follows clear_registry() scans again
C17_PopulatedOnce ==
    [][/\ last'.op \in RegistryRequests => (last'.scanned <=> ~registry.populated)
       /\ (registry.populated /\ last'.op # "clear_registry") => registry' = registry
       /\ (registry.populated /\ last'.op = "resolve")
             => last'.ret = lookup(registry.index, last'.arg)
       /\ (/\ last.op = "resolve" /\ last.raised = None
           /\ last'.op = "resolve" /\ last'.arg = last.arg)
             => last'.ret = last.ret /\ ~last'.scanned /\ last'.raised = None
       /\ (/\ last.op = "get_plugins" /\ last.raised = None
           /\ last'.op = "get_plugins")
             => /\ ~last'.scanned
                /\ last'.raised = None
                /\ \A i \in 1..Len(last.ret) :
                      \E j \in 1..Len(last'.ret) : last'.ret[j] = last.ret[i]
       /\ (last.op = "clear_registry" /\ last'.op \in RegistryRequests)
             => last'.scanned]_vars

\* a get_plugins() answered from the index without a scan
C17_Witness ==
    /\ last.op = "get_plugins"
    /\ ~last.scanned
    /\ last.raised = None
    /\ registry.populated
    /\ last.ret = registry.index
    /\ last.ret # <<>>

\* C18: when two implementations declare the same type identifier, every
\* request that finds the registry unpopulated fails with the population
\* error in its scan, whatever type it asks for, and leaves the registry
\* unpopulated; the registry is never populated with two entries of one type
C18_DuplicateTypesFailPopulation ==
    [][/\ (HasDuplicateTypes(registry.impls) /\ last'.op \in RegistryRequests)
             => /\ last'.scanned
                /\ last'.raised = PopulationError
                /\ ~registry'.populated
       /\ registry'.populated => ~HasDuplicateTypes(registry'.index)]_vars

\* the look-up of a type that only one implementation declares failed in
\* the scan, because two other implementations share a type
C18_Witness ==
    /\ HasDuplicateTypes(registry.impls)
    /\ last.op = "resolve"
    /\ last.arg = NestedViewType
    /\ last.scanned
    /\ last.raised = PopulationError
    /\ ~registry.populated

\* C19: resolving an element, or a class name, that declares a supported
\* type identifier returns the handler, or implementation, whose declared
\* type equals the identifier; look-up is by exact equality, so any other
\* class name (a prefix, a suffix or a case variant of a supported one
\* included) does not resolve
C19_ExactMatch ==
    /\ (last.op = "resolve" /\ last.raised = None) =>
          /\ last.arg \in SupportedTypes => last.ret.type = last.arg
          /\ last.arg \notin SupportedTypes => last.ret = NoPlugin
    /\ (last.op = "create_xml_plugin" /\ last.raised = None) =>
          LET class_name == IF last.arg.class # None THEN last.arg.class
                            ELSE last.arg.tag
          IN  /\ class_name \in SupportedTypes =>
                    last.ret.type = class_name /\ last.ret.node = last.arg
              /\ class_name \notin SupportedTypes => last.ret = NoPlugin
    /\ (last.op \in {"resolve", "create_xml_plugin"}
            /\ ~HasDuplicateTypes(registry.impls))
          => last.raised = None

\* the prefix hudson.model of hudson.model.ListView did not resolve
C19_Witness ==
    /\ last.op = "resolve"
    /\ last.arg = <<"hudson", ".model">>
    /\ last.raised = None
    /\ registry.populated
    /\ last.ret = NoPlugin

\* the handlers of the child elements whose type is supported, in order
RECURSIVE ResolvedChildren(_)
ResolvedChildren(nodes) ==
    IF nodes = <<>> THEN <<>>
    ELSE LET class_name == IF Head(nodes).class # None THEN Head(nodes).class
                           ELSE Head(nodes).tag
         IN  (IF class_name \in SupportedTypes
              THEN <<Handler(lookup(Implementations, class_name), Head(nodes))>>
              ELSE <<>>) \o ResolvedChildren(Tail(nodes))

\* C20: properties, publishers and builders return, for every project
\* document, the list of the handlers of the child elements whose type
\* resolves, in document order, and never raise
C20_PluginLists ==
    last.op \in {"properties", "publishers", "builders"} =>
        /\ last.raised = None
        /\ LET nodes == last.arg[last.op]
           IN  last.ret = IF nodes = NoNode THEN <<>>
                          ELSE ResolvedChildren(nodes.children)

\* the class name of an element: its class attribute, else its tag
ClassNameOf(node) == IF node.class # None THEN node.class ELSE node.tag

\* C21: JobXML.scm returns the resolved handler when the type of the scm
\* element is in the registry, and otherwise raises PluginNotSupportedError
\* carrying the unresolved type identifier of that element; it never returns
\* the "no handler" value
C21_ScmResolvesOrRaises ==
    last.op = "scm" =>
        LET node == last.arg.scm
        IN  /\ ClassNameOf(node) \in SupportedTypes
                  => /\ last.raised = None
                     /\ last.ret.type = ClassNameOf(node)
                     /\ last.ret.node = node
            /\ ClassNameOf(node) \notin SupportedTypes
                  => last.raised = PluginNotSupportedError(ClassNameOf(node))
            /\ last.raised = None => last.ret # NoPlugin

\* JobXML.scm on <scm class="vector"/> raised PluginNotSupportedError("vector")
C21_Witness ==
    /\ last.op = "scm"
    /\ last.arg.scm.class = <<"vector">>
    /\ last.raised = PluginNotSupportedError(<<"vector">>)

\* C22: resolution depends only on class_name: two elements of the same
\* class name, resolved one after the other, give handlers of the same type
\* (or both none) whatever plugin attribute either carries, and an element
\* without plugin attribute of a supported class name resolves
C22_ResolutionByClassNameOnly ==
    [][/\ (/\ last.op = "create_xml_plugin" /\ last'.op = "create_xml_plugin"
           /\ ClassNameOf(last.arg) = ClassNameOf(last'.arg))
             => /\ last'.ret.type = last.ret.type
                /\ last'.raised = last.raised
       /\ (/\ last.op = "scm" /\ last'.op = "scm"
           /\ ClassNameOf(last.arg.scm) = ClassNameOf(last'.arg.scm))
             => /\ last'.ret.type = last.ret.type
                /\ last'.raised = last.raised
       /\ (/\ last'.op = "create_xml_plugin"
           /\ last'.arg.plugin = None
           /\ ClassNameOf(last'.arg) \in SupportedTypes)
             => last'.raised = None /\ last'.ret.type = ClassNameOf(last'.arg)
       /\ (/\ last'.op = "scm"
           /\ last'.arg.scm.plugin = None
           /\ ClassNameOf(last'.arg.scm) \in SupportedTypes)
             => /\ last'.raised = None
                /\ last'.ret.type = ClassNameOf(last'.arg.scm)]_vars

\* JobXML.scm resolved <scm class="hudson.scm.SubversionSCM"/>, an element
\* that names no plugin version
C22_Witness ==
    /\ last.op = "scm"
    /\ last.arg.scm.plugin = None
    /\ last.arg.scm.class = SubversionType
    /\ last.raised = None
    /\ last.ret.type = SubversionType

(***************************************************************************)
(* Nested views: find_view, has_view, all_views                            *)
(***************************************************************************)
\* the view of the tree a handler is for
NodeOf(handler) == ViewAt(views, handler.controller.url)

\* view j is view i or is held, at any depth, by view i
RECURSIVE IsUnder(_, _)
IsUnder(j, i) ==
    \/ j = i
    \/ j # 0 /\ IsUnder(views.parent[j], i)

\* the views whose listing the requests of an operation read
ListingsRead(reqs) ==
    {i \in {0} \cup ViewsIn(views) :
        \E k \in 1..Len(reqs) :
            reqs[k].url = ApiUrl(DataRequester(ViewUrl(i), None, None), None)}

Named(view_name) == {i \in ViewsIn(views) : views.name[i] = view_name}

\* C23: on every tree of views and for every name, find_view on the root view
\* returns a handler for a view of that name when a view of that name exists
\* at any depth below the root, and None when none exists; it reads the
\* listing of views of the nested view type only.
C23_FindViewAtAnyDepth ==
    last.op = "find_view" =>
        /\ Named(last.arg) # {} =>
              /\ last.ret # NoPlugin
              /\ NodeOf(last.ret) \in Named(last.arg)
              /\ last.ret.type = views.type[NodeOf(last.ret)]
        /\ Named(last.arg) = {} => last.ret = NoPlugin
        /\ \A i \in ListingsRead(last.reqs) : TypeAt(views, i) = NestedViewType

\* find_view returned a view held by a nested view of the root, next to a
\* view of another type
C23_Witness ==
    /\ last.op = "find_view"
    /\ last.ret # NoPlugin
    /\ views.parent[NodeOf(last.ret)] # 0
    /\ \E i \in ViewsIn(views) : views.parent[i] = 0 /\ views.type[i] = ListViewType

\* C24: when the name is the name of a view the root holds, find_view returns
\* such a view, also when a nested view listed earlier holds a view of that
\* name; when only views inside nested views of the root have the name, the
\* result comes from the first such nested view of the listing and no view
\* listed after it is searched.
C24_DirectBeforeNested ==
    last.op = "find_view" =>
        LET direct == {i \in Named(last.arg) : views.parent[i] = 0}
            holders == {c \in ViewsIn(views) :
                           /\ views.parent[c] = 0
                           /\ \E i \in Named(last.arg) : i # c /\ IsUnder(i, c)}
        IN  /\ direct # {} =>
                  /\ last.ret # NoPlugin
                  /\ NodeOf(last.ret) \in direct
            /\ direct = {} /\ holders # {} =>
                  LET first == CHOOSE c \in holders : \A d \in holders : c <= d
                  IN  /\ last.ret # NoPlugin
                      /\ IsUnder(NodeOf(last.ret), first)
                      /\ \A c \in ViewsIn(views), i \in ListingsRead(last.reqs) :
                            views.parent[c] = 0 /\ c > first => ~IsUnder(i, c)

\* find_view returned a view of the root although a nested view listed before
\* it holds a view of the same name
C24_Witness ==
    /\ last.op = "find_view"
    /\ last.ret # NoPlugin
    /\ views.parent[NodeOf(last.ret)] = 0
    /\ \E c \in ViewsIn(views), i \in Named(last.arg) :
          /\ views.parent[c] = 0
          /\ c < NodeOf(last.ret)
          /\ i # c
          /\ IsUnder(i, c)

\* C25: has_view(name) is true exactly when a view the container holds has
\* that name; a view two or more levels down never makes it true, even when
\* find_view returns it.
C25_HasViewDirectOnly ==
    last.op = "has_view" =>
        (last.ret <=> \E i \in Named(last.arg) : views.parent[i] = 0)

\* has_view is false for a name find_view finds
C25_Witness ==
    /\ last.op = "has_view"
    /\ last.ret = FALSE
    /\ find_view(views, RootView, last.arg).ret # NoPlugin

\* C26: on every tree of views, all_views on the root view returns every view
\* below the root exactly once, not the root, and the views a nested view
\* holds before that nested view.
C26_AllViewsOnceChildrenFirst ==
    last.op = "all_views" =>
        /\ \A i \in ViewsIn(views) :
              Cardinality({k \in 1..Len(last.ret) : NodeOf(last.ret[k]) = i}) = 1
        /\ \A k \in 1..Len(last.ret) : NodeOf(last.ret[k]) # 0
        /\ \A k, m \in 1..Len(last.ret) :
              views.parent[NodeOf(last.ret[k])] = NodeOf(last.ret[m]) => k < m

\* all_views on a tree in which a nested view holds a nested view that holds
\* a view
C26_Witness ==
    /\ last.op = "all_views"
    /\ \E i, j \in ViewsIn(views) :
          /\ views.parent[j] = i
          /\ views.parent[i] # 0
    /\ Len(last.ret) = Len(views.parent)
(***************************************************************************)
(* JobXML: round trip and custom workspace                                 *)
(***************************************************************************)
CustomWorkspaces(element) ==
    SelectSeq(element.children, LAMBDA elem : elem.tag = <<"customWorkspace">>)

OtherElements(element) ==
    SelectSeq(element.children, LAMBDA elem : elem.tag # <<"customWorkspace">>)

\* C27: the XML of a JobXML object that was constructed from a project
\* document and not changed since is, as XML, the document it was constructed
\* from: the same elements, attributes and text in the same order.
C27_RoundTrip ==
    [][last.op = "JobXML" /\ last.raised = None /\ last'.op = "XML"
          => fromstring(last'.ret) = fromstring(last.arg)]_vars

\* XML was read from a document with a class attribute and a text, written
\* otherwise than the document the object was constructed from
C27_Witness ==
    /\ last.op = "XML"
    /\ \E k \in 1..Len(job_root.children) : job_root.children[k].text # None
    /\ \E k \in 1..Len(job_root.children) : job_root.children[k].class # None
    /\ \E xml \in ProjectXmls : fromstring(xml) = job_root /\ xml # last.ret

\* C28: after custom_workspace is set to a path, the document has exactly one
\* customWorkspace element, its text is the path, the getter returns the
\* path, and the other elements are the ones the document had before, in
\* their order.
C28_SetCustomWorkspace ==
    last.op = "custom_workspace.setter" =>
        /\ Len(CustomWorkspaces(job_root)) = 1
        /\ CustomWorkspaces(job_root)[1].text = last.arg
        /\ custom_workspace_of(job_root) = last.arg
        /\ OtherElements(job_root) = OtherElements(last.key)

\* the path of a custom workspace the document had was replaced
C28_Witness ==
    /\ last.op = "custom_workspace.setter"
    /\ Len(CustomWorkspaces(last.key)) = 1
    /\ CustomWorkspaces(last.key)[1].text # last.arg
    /\ custom_workspace_of(job_root) = last.arg

\* C29: after disable_custom_workspace the document has no customWorkspace
\* element and the getter returns the empty string; on a document without a
\* custom workspace the call changes nothing, and a second call changes
\* nothing.
C29_DisableCustomWorkspace ==
    last.op = "disable_custom_workspace" =>
        /\ Len(CustomWorkspaces(job_root)) = 0
        /\ custom_workspace_of(job_root) = <<>>
        /\ OtherElements(job_root) = OtherElements(last.key)
        /\ Len(CustomWorkspaces(last.key)) = 0 => job_root = last.key
        /\ disable_custom_workspace(job_root) = job_root

\* the custom workspace of a document was removed
C29_Witness ==
    /\ last.op = "disable_custom_workspace"
    /\ Len(CustomWorkspaces(last.key)) = 1
    /\ Len(CustomWorkspaces(job_root)) = 0
    /\ Len(job_root.children) = Len(last.key.children) - 1
(***************************************************************************)
(* Flush and write-through                                                 *)
(***************************************************************************)
\* the request set_config issues for a locator and a document while caching
\* is disabled
WriteThrough(cache_item, new_xml) ==
    post_result([url |-> cache_item, cred |-> None], <<"/", "config.xml">>,
                [data |-> new_xml, headers |-> XmlHeaders], 200).reqs[1]

\* C30: flush() posts every entry of the write-back cache to the address,
\* with the content type and with the body that set_config uses for that
\* locator and document while caching is disabled.
C30_FlushAsWriteThrough ==
    (caching /\ last.op = "flush") =>
        \A i \in 1..Len(last.reqs) :
            \E cache_item \in DOMAIN configxml_cache :
                LET direct == WriteThrough(cache_item, configxml_cache[cache_item])
                IN  /\ last.reqs[i].method = direct.method
                    /\ last.reqs[i].url = direct.url
                    /\ last.reqs[i].ctype = direct.ctype
                    /\ last.reqs[i].body = direct.body
(***************************************************************************)
(* Locator normalization                                                   *)
(***************************************************************************)
\* no two keys of a cache differ in trailing separators only
OneEntryPerLocator(cache) ==
    \A k1, k2 \in DOMAIN cache : rstrip(k1) = rstrip(k2) => k1 = k2

\* C31: the url of an access object is the url it was built from without its
\* trailing '/' and '\', followed by one '/'; normalizing it again, as clone
\* does, changes nothing; access objects built from urls that differ in
\* trailing separators only are the same locator, and no cache holds two
\* entries for one locator.
C31_NormalizedLocators ==
    /\ \A u \in RawUrls, n \in Users, p \in Passwords :
          LET o == DataRequester(u, n, p)
          IN  /\ o.url = rstrip(u) \o <<"/">>
              /\ rstrip(u) = <<>> \/ rstrip(u)[Len(rstrip(u))] \notin Separators
    /\ \A o \in Objects :
          /\ NormalizeUrl(o.url) = o.url
          /\ clone(o, None) = o
          /\ clone(o, o.url) = o
    /\ \A u1, u2 \in RawUrls, n \in Users, p \in Passwords :
          rstrip(u1) = rstrip(u2) => DataRequester(u1, n, p) = DataRequester(u2, n, p)
    /\ OneEntryPerLocator(text_cache)
    /\ OneEntryPerLocator(header_cache)
    /\ OneEntryPerLocator(configxml_cache)

\* a configuration is read from the one entry of the write-back cache that
\* access objects built from two different urls share
C31_Witness ==
    /\ last.op = "config_xml"
    /\ IssuedNothing(last)
    /\ DOMAIN configxml_cache = {last.key}
    /\ \E u1, u2 \in RawUrls :
          /\ u1 # u2
          /\ DataRequester(u1, None, None).url = last.key
          /\ DataRequester(u2, None, None).url = last.key
(***************************************************************************)
(* The write-back cache across flushes                                     *)
(***************************************************************************)
\* C32: flush() removes no entry of the write-back cache: a get_config right
\* after a flush that the server accepted returns the cached document
\* without a request, and every flush() that starts with the dirty flag set
\* posts every entry written since the last clear(), also the entries an
\* earlier flush has committed.
C32_FlushKeepsEntries ==
    [][/\ last'.op = "flush" => configxml_cache' = configxml_cache
       /\ (/\ last.op = "flush"
           /\ last.raised = None
           /\ last'.op = "config_xml"
           /\ last'.key \in DOMAIN written)
             => /\ IssuedNothing(last')
                /\ last'.ret = written[last'.key]
       /\ (needs_flush /\ last'.op = "flush")
             => \A k \in DOMAIN written :
                   /\ PostsFor(last', k) # {}
                   /\ \A i \in PostsFor(last', k) : last'.reqs[i].body = written[k]]_vars

\* a configuration read from the cache after the flush that committed it
C32_Witness ==
    /\ last.op = "config_xml"
    /\ IssuedNothing(last)
    /\ ~needs_flush
    /\ last.key \in DOMAIN written
    /\ FlushUrl(last.key) \in DOMAIN server
    /\ server[FlushUrl(last.key)] = last.ret
(***************************************************************************)
(* The dirty flag                                                          *)
(***************************************************************************)
\* C33: whenever the dirty flag is set the write-back cache has an entry;
\* the flag becomes true only in set_config with caching enabled and becomes
\* false only in flush() and clear().
C33_DirtyMeansCached ==
    /\ [](needs_flush => configxml_cache # <<>>)
    /\ [][/\ (~needs_flush /\ needs_flush')
                => caching /\ last'.op = "config_xml.setter"
          /\ (needs_flush /\ ~needs_flush')
                => last'.op \in {"flush", "clear"}]_vars

\* the flag is set again by a write after a flush has cleared it
C33_Witness ==
    /\ needs_flush
    /\ last.op = "config_xml.setter"
    /\ \E k \in DOMAIN configxml_cache : FlushUrl(k) \in DOMAIN server
(***************************************************************************)
(* Caching disabled                                                        *)
(***************************************************************************)
\* C34: while caching is disabled, whatever operations are called, the three
\* caches stay empty and the dirty flag stays false, so a flush() issues no
\* request and every read issues its GET.
C34_DisabledCachingStoresNothing ==
    ~caching =>
        /\ text_cache = <<>>
        /\ header_cache = <<>>
        /\ configxml_cache = <<>>
        /\ ~needs_flush
        /\ last.op = "flush" => IssuedNothing(last)
        /\ last.op \in {"get_text", "get_api_data", "get_headers", "config_xml"} =>
              /\ Len(last.reqs) = 1
              /\ last.reqs[1].method = "GET"

\* a flush that issued nothing after a write went through to the server
C34_Witness ==
    /\ ~caching
    /\ last.op = "flush"
    /\ IssuedNothing(last)
    /\ server # <<>>
(***************************************************************************)
(* Nested views: create_view and move_view                                 *)
(***************************************************************************)
\* C35: with caching enabled, create_view returns a handler for the new view
\* whenever the server accepted the POST and created the view, also when the
\* listing of the container was read before; it raises
\* NestedViewCreationError only when the server holds no view of the name in
\* the container, and it never returns None.
C35_CreateViewReturnsNewView ==
    (caching /\ last.op = "create_view" /\ last.raised # HTTPError) =>
        /\ Held(views, last.arg) # {} =>
              /\ last.raised = None
              /\ last.ret # NoPlugin
              /\ NodeOf(last.ret) \in Held(views, last.arg)
        /\ last.raised = NestedViewCreationError => Held(views, last.arg) = {}
        /\ last.raised = None => last.ret # NoPlugin

\* the requests of an operation that post to a url
PostsTo(reqs, url) ==
    {k \in 1..Len(reqs) : reqs[k].method = "POST" /\ reqs[k].url = url}

DeleteUrl(i) == PathUrl(ControllerOf(RootView, i), <<"/", "doDelete">>)

CreateUrl == PathUrl(RootView, <<"/", "createView">>)

\* the delete of the moved view is the last request, no request before it
\* failed, and the POST to createView is among them
DeletedLast(outcome, i) ==
    \A d \in PostsTo(outcome.reqs, DeleteUrl(i)) :
        /\ d = Len(outcome.reqs)
        /\ \A k \in 1..(d - 1) : ~RaisesForStatus(outcome.reqs[k].status)
        /\ \E k \in 1..(d - 1) : k \in PostsTo(outcome.reqs, CreateUrl)

\* a view of the name of the moved view that the root view holds has, on the
\* server, the configuration of the moved view
CopiedOnServer(i) ==
    \E n \in Held(views, views.name[i]) \ {i} :
        ConfigOnServer(server, views, n)
            = rename(ConfigOnServer(server, views, i), views.name[i])

\* C36: move_view sends the delete of the original view only after the new
\* view was created and the configuration of the original was written to it;
\* if creating the view or writing the configuration raises, no delete is
\* sent and the original view still exists; when move_view returns, the
\* configuration of the new view on the server is the renamed configuration
\* of the original.
C36_MoveView ==
    last.op = "move_view" =>
        /\ DeletedLast(last, last.arg)
        /\ PostsTo(last.reqs, DeleteUrl(last.arg)) # {} => CopiedOnServer(last.arg)
        /\ last.raised # None => Exists(views, last.arg)
        /\ last.raised = NestedViewCreationError =>
              PostsTo(last.reqs, DeleteUrl(last.arg)) = {}
        /\ last.raised = None =>
              /\ last.ret # NoPlugin
              /\ ConfigOnServer(server, views, NodeOf(last.ret))
                    = rename(ConfigOnServer(server, views, last.arg),
                             views.name[last.arg])

\* C36 (amended): the order of the requests and the absence of the delete
\* after a failure are as claimed; the configuration of the new view is on
\* the server when the delete is sent and when move_view returns while
\* caching is disabled, and is in the write-back cache, with the dirty flag
\* set, while caching is enabled.
C36_MoveViewWritesThroughOrCaches ==
    last.op = "move_view" =>
        /\ DeletedLast(last, last.arg)
        /\ (~caching /\ PostsTo(last.reqs, DeleteUrl(last.arg)) # {})
              => CopiedOnServer(last.arg)
        /\ last.raised # None => Exists(views, last.arg)
        /\ last.raised = NestedViewCreationError =>
              PostsTo(last.reqs, DeleteUrl(last.arg)) = {}
        /\ last.raised = None =>
              /\ last.ret # NoPlugin
              /\ ~caching =>
                    ConfigOnServer(server, views, NodeOf(last.ret))
                        = rename(ConfigOnServer(server, views, last.arg),
                                 views.name[last.arg])
              /\ caching =>
                    /\ needs_flush
                    /\ last.ret.controller.url \in DOMAIN configxml_cache

\* a view held by a nested view was moved to the root view: the original is
\* deleted and the new view has its configuration on the server
C36_Witness ==
    /\ ~caching
    /\ last.op = "move_view"
    /\ last.raised = None
    /\ ~Exists(views, last.arg)
    /\ NodeOf(last.ret) # last.arg
    /\ ConfigOnServer(server, views, NodeOf(last.ret))
          = DefaultConfig(views, last.arg)

\* the handlers all_views returns on the root view
AllHandlers == all_views(views, RootView).ret

\* C37: on every tree of views and for every name, find_view returns a
\* handler exactly when all_views returns a view of that name, and the
\* handler find_view returns is one of the handlers all_views returns.
C37_FindViewAgreesWithAllViews ==
    last.op = "find_view" =>
        /\ last.ret # NoPlugin <=>
              \E k \in 1..Len(AllHandlers) :
                  views.name[NodeOf(AllHandlers[k])] = last.arg
        /\ last.ret # NoPlugin =>
              \E k \in 1..Len(AllHandlers) : AllHandlers[k] = last.ret

\* find_view returned a view two levels below the root that all_views lists
C37_Witness ==
    /\ last.op = "find_view"
    /\ last.ret # NoPlugin
    /\ views.parent[NodeOf(last.ret)] # 0
    /\ views.parent[views.parent[NodeOf(last.ret)]] # 0
    /\ \E k \in 1..Len(AllHandlers) : AllHandlers[k] = last.ret
====
